---- MODULE Spec2Model ----
(***************************************************************************)
(* A model of the AutomaticCameraCalibrator module                         *)
(* (Src/Modules/Configuration/CameraCalibrator/AutomaticCameraCalibrator.cpp) *)
(* The module object is the record `calibrator`; its fields carry the      *)
(* member names of the C++ class.  Every C++ method is an operator from    *)
(* the object (and the cycle's inputs) to the object after the call.       *)
(***************************************************************************)
EXTENDS Integers, Sequences, FiniteSets, TLC

VARIABLES
  calibrator,               \* the module object: all member fields
  theCalibrationRequest,    \* blackboard input of the current cycle
  theCameraCalibration,     \* blackboard input: the calibration read this cycle
  theFrameInfo,             \* blackboard input: [time |-> ...]
  cameraCalibration,        \* output representation written by update(CameraCalibration&)
  cameraCalibrationStatus,  \* output representation written by update(CameraCalibrationStatus&)
  pc,                       \* which provider runs next / which operation ran last
  trace,                    \* history of the last call: what it read and decided
  houghSpace,               \* fitLine: the angle x distance accumulator
  minIndex,                 \* fitLine: first angle bucket of the scanned sector
  maxIndex,                 \* fitLine: one past the last angle bucket of the sector
  localMaxima               \* fitLine: result of determineLocalMaxima

vars == <<calibrator, theCalibrationRequest, theCameraCalibration, theFrameInfo,
          cameraCalibration, cameraCalibrationStatus, pc, trace,
          houghSpace, minIndex, maxIndex, localMaxima>>

(***************************************************************************)
(* Bounds of the model                                                     *)
(***************************************************************************)
\* largest sampleIndexBase of a configuration whose functions are examined alone
MaxBase == 1
\* angle buckets of the accumulator examined by determineLocalMaxima
numOfAngles == 4
\* distance buckets of the accumulator (2 * dMax + 1 in fitLine)
NumDistances == 3
\* largest vote count of an accumulator cell
MaxAcc == 2

(***************************************************************************)
(* Types                                                                   *)
(***************************************************************************)
\* ENUM(SampleType): the fixed order used by FOREACH_ENUM
SampleType == <<"cornerAngle", "parallelAngle", "parallelLinesDistance",
                "goalAreaDistance", "groundLineDistance">>

SampleTypes == {SampleType[n] : n \in 1..Len(SampleType)}

\* position of a sample type in the enumeration (0-based, as in C++)
Ord(sampleType) == CHOOSE n \in 0..(Len(SampleType) - 1) : SampleType[n + 1] = sampleType

\* an empty std::unique_ptr<Sample>
NoSample == [type |-> "null"]

Min(a, b) == IF a < b THEN a ELSE b
Max(a, b) == IF a > b THEN a ELSE b

(***************************************************************************)
(* SampleConfiguration                                                     *)
(***************************************************************************)
\* the slot index under a mistaken rank: the ordinal of the type among all
\* types, not among the requested ones
SampleIndexByOrdinal(config, sampleType) == config.sampleIndexBase + Ord(sampleType)

\* sampleIndex as computed by needToRecord and record:
\* FOREACH_ENUM(SampleType, x, sampleType) if(sampleTypes & bit(x)) ++sampleIndex;
SampleIndex(config, sampleType) ==
  config.sampleIndexBase
    + Cardinality({x \in SampleTypes : Ord(x) < Ord(sampleType) /\ x \in config.sampleTypes})

\* ASSERT(sampleIndex < samples.size()); the table is 0-based in C++, 1-based here
IndexInTable(table, sampleIndex) == sampleIndex < Len(table)

needToRecord(config, table, sampleType) ==
  IF sampleType \notin config.sampleTypes
  THEN FALSE
  ELSE table[SampleIndex(config, sampleType) + 1] = NoSample

record(config, table, sampleType, sample) ==
  [table EXCEPT ![SampleIndex(config, sampleType) + 1] = sample]

\* samplesExist walks the requested types in enumeration order, advancing the
\* index only for requested types, and stops at the first empty slot
RECURSIVE samplesExistFrom(_, _, _, _)
samplesExistFrom(config, table, n, sampleIndex) ==
  IF n > Len(SampleType) THEN TRUE
  ELSE IF SampleType[n] \in config.sampleTypes
       THEN IF table[sampleIndex + 1] = NoSample
            THEN FALSE
            ELSE samplesExistFrom(config, table, n + 1, sampleIndex + 1)
       ELSE samplesExistFrom(config, table, n + 1, sampleIndex)

samplesExist(config, table) == samplesExistFrom(config, table, 1, config.sampleIndexBase)

(***************************************************************************)
(* determineLocalMaxima                                                    *)
(***************************************************************************)
maxDisIndex == NumDistances

\* a comparison under which an equal neighbour suppresses a cell
ExceedsOrEquals(neighbour, value) == neighbour >= value

\* houghSpace[index][j] > value
Exceeds(neighbour, value) == neighbour > value

\* the lambda localMaximum
localMaximum(space, value, angleIndex, distanceIndex, nAngles) ==
  \A i \in -1..1 :
    LET index == ((angleIndex + i) + nAngles) % nAngles IN
    \A j \in Max(0, distanceIndex - 1)..Min(maxDisIndex - 1, distanceIndex + 1) :
      \/ (index = angleIndex /\ j = distanceIndex)
      \/ ~Exceeds(space[index][j], value)

\* a scan that stops at the last bucket instead of wrapping around
ScannedAnglesNoWrap(lo, hi) ==
  IF lo <= hi
  THEN [n \in 1..(hi - lo) |-> lo + n - 1]
  ELSE [n \in 1..(numOfAngles - lo) |-> lo + n - 1]

\* the angle buckets visited by
\* for(angleIndex = minIndex; angleIndex != maxIndex; ++angleIndex), with the
\* wrap-around from numOfAngles - 1 to 0 when minIndex > maxIndex
ScannedAngles(lo, hi) ==
  IF lo <= hi
  THEN [n \in 1..(hi - lo) |-> lo + n - 1]
  ELSE [n \in 1..(numOfAngles - lo + hi) |-> (lo + n - 1) % numOfAngles]

\* the maxima of one angle bucket, in increasing distanceIndex
RECURSIVE MaximaOfAngle(_, _, _)
MaximaOfAngle(space, angleIndex, distanceIndex) ==
  IF distanceIndex >= maxDisIndex THEN <<>>
  ELSE LET value == space[angleIndex][distanceIndex] IN
       (IF value # 0 /\ localMaximum(space, value, angleIndex, distanceIndex, numOfAngles)
        THEN <<[maxAcc |-> value, angleIndex |-> angleIndex, distanceIndex |-> distanceIndex]>>
        ELSE <<>>)
       \o MaximaOfAngle(space, angleIndex, distanceIndex + 1)

RECURSIVE MaximaOfAngles(_, _, _)
MaximaOfAngles(space, angles, n) ==
  IF n > Len(angles) THEN <<>>
  ELSE MaximaOfAngle(space, angles[n], 0) \o MaximaOfAngles(space, angles, n + 1)

determineLocalMaxima(space, lo, hi) == MaximaOfAngles(space, ScannedAngles(lo, hi), 1)

(***************************************************************************)
(* Module parameters and field dimensions (values of the configuration)    *)
(***************************************************************************)
\* number of cycles that count a discard before a range is widened
discardsUntilIncrease == 2
\* the amount by which a range is widened on each side
increase == 10
\* qualifying steps in a row that end the optimization
minSuccessiveConvergences == 2

theFieldDimensions ==
  [xPosOpponentGroundLine |-> 4500, xPosOpponentGoalArea |-> 3900,
   xPosOpponentPenaltyMark |-> 3200, fieldLinesWidth |-> 50]

Rangef(lo, hi) == [min |-> lo, max |-> hi]

\* Rangef::isInside
isInside(range, t) == t >= range.min /\ t <= range.max

NoConfiguration == <<>>
NoRequest == <<>>

\* a float that is not finite: the mean over an empty table, a diverged delta
NaN == -1000000
\* std::numeric_limits<float>::max()
FloatMax == 1000000

\* a < b on floats, false when either side is NaN
Less(a, b) == a # NaN /\ b # NaN /\ a < b

\* Parameters(): six angles, in hundredths of a degree
NumOfParameters == 6
ZeroParameters == [n \in 1..NumOfParameters |-> 0]

(***************************************************************************)
(* The module object after the constructor                                 *)
(***************************************************************************)
InitialCalibrator ==
  [state |-> "idle",
   inStateSince |-> 0,
   numOfSamples |-> 0,
   lastSampleConfigurationIndex |-> -1,
   currentSampleConfiguration |-> NoConfiguration,
   samples |-> <<>>,
   allRequiredFeaturesVisible |-> FALSE,
   parallelDisRangeLower |->
     Rangef(theFieldDimensions.xPosOpponentGroundLine - theFieldDimensions.xPosOpponentGoalArea - theFieldDimensions.fieldLinesWidth,
            theFieldDimensions.xPosOpponentGroundLine - theFieldDimensions.xPosOpponentGoalArea + theFieldDimensions.fieldLinesWidth),
   parallelDisRangeUpper |->
     Rangef(theFieldDimensions.xPosOpponentGroundLine - theFieldDimensions.xPosOpponentGoalArea - theFieldDimensions.fieldLinesWidth,
            theFieldDimensions.xPosOpponentGroundLine - theFieldDimensions.xPosOpponentGoalArea + theFieldDimensions.fieldLinesWidth),
   goalAreaDisRangeLower |->
     Rangef(theFieldDimensions.xPosOpponentGoalArea - theFieldDimensions.xPosOpponentPenaltyMark - theFieldDimensions.fieldLinesWidth,
            theFieldDimensions.xPosOpponentGoalArea - theFieldDimensions.xPosOpponentPenaltyMark + theFieldDimensions.fieldLinesWidth),
   goalAreaDisRangeUpper |->
     Rangef(theFieldDimensions.xPosOpponentGoalArea - theFieldDimensions.xPosOpponentPenaltyMark - theFieldDimensions.fieldLinesWidth,
            theFieldDimensions.xPosOpponentGoalArea - theFieldDimensions.xPosOpponentPenaltyMark + theFieldDimensions.fieldLinesWidth),
   groundLineDisRangeLower |->
     Rangef(theFieldDimensions.xPosOpponentGroundLine - theFieldDimensions.xPosOpponentPenaltyMark - theFieldDimensions.fieldLinesWidth,
            theFieldDimensions.xPosOpponentGroundLine - theFieldDimensions.xPosOpponentPenaltyMark + theFieldDimensions.fieldLinesWidth),
   groundLineDisRangeUpper |->
     Rangef(theFieldDimensions.xPosOpponentGroundLine - theFieldDimensions.xPosOpponentPenaltyMark - theFieldDimensions.fieldLinesWidth,
            theFieldDimensions.xPosOpponentGroundLine - theFieldDimensions.xPosOpponentPenaltyMark + theFieldDimensions.fieldLinesWidth),
   numOfDiscardedParallelLines |-> 0,
   numOfDiscardedGoalAreaLines |-> 0,
   numOfDiscardedGroundLines |-> 0,
   optimizer |-> FALSE,
   optimizationParameters |-> ZeroParameters,
   successiveConvergences |-> 0,
   optimizationSteps |-> 0,
   lowestDelta |-> FloatMax,
   lowestDeltaParameters |-> ZeroParameters,
   lowestError |-> FloatMax,
   lowestErrorParameters |-> ZeroParameters,
   nextCameraCalibration |->
     [cameraRotationCorrections |-> [lower |-> [x |-> 0, y |-> 0], upper |-> [x |-> 0, y |-> 0]],
      bodyRotationCorrection |-> [x |-> 0, y |-> 0]],
   aborted |-> FALSE]

(***************************************************************************)
(* updateSampleConfiguration                                               *)
(***************************************************************************)
\* an update that counts one slot for a configuration, whatever it asks for
updateSampleConfigurationCountingOne(self, theRequest) ==
  IF theRequest.sampleConfigurationRequest = NoRequest
  THEN self
  ELSE IF theRequest.sampleConfigurationRequest[1].index = self.lastSampleConfigurationIndex
       THEN self
       ELSE [self EXCEPT
               !.currentSampleConfiguration =
                  <<[camera |-> theRequest.sampleConfigurationRequest[1].camera,
                     sampleTypes |-> theRequest.sampleConfigurationRequest[1].sampleTypes,
                     sampleIndexBase |-> self.numOfSamples]>>,
               !.numOfSamples = @ + 1,
               !.lastSampleConfigurationIndex = theRequest.sampleConfigurationRequest[1].index]

updateSampleConfiguration(self, theRequest) ==
  IF theRequest.sampleConfigurationRequest = NoRequest
  THEN self
  ELSE LET request == theRequest.sampleConfigurationRequest[1] IN
       IF request.index = self.lastSampleConfigurationIndex
       THEN self
       ELSE [self EXCEPT
               !.currentSampleConfiguration =
                  <<[camera |-> request.camera,
                     sampleTypes |-> request.sampleTypes,
                     sampleIndexBase |-> self.numOfSamples]>>,
               !.numOfSamples = @ + Cardinality(request.sampleTypes),
               !.lastSampleConfigurationIndex = request.index]

(***************************************************************************)
(* needToRecord as called by the collector: "yes", "no", or "assert" when  *)
(* ASSERT(sampleIndex < samples.size()) fails                              *)
(***************************************************************************)
Need(config, table, sampleType) ==
  IF sampleType \notin config.sampleTypes THEN "no"
  ELSE IF ~IndexInTable(table, SampleIndex(config, sampleType)) THEN "assert"
  ELSE IF needToRecord(config, table, sampleType) THEN "yes" ELSE "no"

\* a || b and !a on such results, b evaluated only when a is "no"
Or3(a, b) == IF a = "no" THEN b ELSE a
Not3(a) == IF a = "yes" THEN "no" ELSE IF a = "no" THEN "yes" ELSE a
\* a && b, b evaluated only when a is "yes"
And3(a, b) == IF a = "yes" THEN b ELSE a
Bool3(b) == IF b THEN "yes" ELSE "no"

\* an ADD_SAMPLE that records into a slot whether or not it is empty
ADD_SAMPLE_Unconditional(acc, config, sampleType, first, second) ==
  IF acc.failed THEN acc
  ELSE IF Need(config, acc.samples, sampleType) = "assert" THEN [acc EXCEPT !.failed = TRUE]
  ELSE IF sampleType \in config.sampleTypes
       THEN [acc EXCEPT !.samples =
               record(config, acc.samples, sampleType,
                      [type |-> sampleType, first |-> first, second |-> second])]
       ELSE acc

\* ADD_SAMPLE on the table of a loop state
ADD_SAMPLE(acc, config, sampleType, first, second) ==
  IF acc.failed THEN acc
  ELSE LET need == Need(config, acc.samples, sampleType) IN
       IF need = "assert" THEN [acc EXCEPT !.failed = TRUE]
       ELSE IF need = "yes"
            THEN [acc EXCEPT !.samples =
                    record(config, acc.samples, sampleType,
                           [type |-> sampleType, first |-> first, second |-> second])]
            ELSE acc

\* a widening that only raises the upper bound of the range
INCREASE_RANGE_UpperOnly(self, discarded, found, numDiscarded, range) ==
  LET counted == IF discarded /\ ~found THEN self[numDiscarded] + 1 ELSE self[numDiscarded] IN
  IF counted >= discardsUntilIncrease
  THEN [self EXCEPT ![numDiscarded] = 0,
                    ![range] = Rangef(@.min, @.max + increase)]
  ELSE [self EXCEPT ![numDiscarded] = counted]

\* INCREASE_RANGE(RangeName, discarded, found, numDiscarded, range)
INCREASE_RANGE(self, discarded, found, numDiscarded, range) ==
  LET counted == IF discarded /\ ~found THEN self[numDiscarded] + 1 ELSE self[numDiscarded] IN
  IF counted >= discardsUntilIncrease
  THEN [self EXCEPT ![numDiscarded] = 0,
                    ![range] = Rangef(@.min - increase, @.max + increase)]
  ELSE [self EXCEPT ![numDiscarded] = counted]

(***************************************************************************)
(* recordSamples                                                           *)
(* The percepts of a cycle are given by the candidates that pass the       *)
(* geometric checks of each search, in the order of the loops:             *)
(*   triples: [i, j, k, fit, distance, len2, len3]                         *)
(*   pairs:   [i, j, firstFarther, fit, goalAreaLineDistance,               *)
(*             groundLineDistance]                                         *)
(* fit is the result of fitLine on all lines of the candidate, distance    *)
(* and the two line distances are the measured values minus the offsets,   *)
(* len2 and len3 the squared lengths of cLine2 and cLine3 on the field,    *)
(* firstFarther the test squaredDistanceToFirst > squaredDistanceToSecond. *)
(***************************************************************************)
LoopStart(table) ==
  [samples |-> table, visible |-> FALSE, failed |-> FALSE,
   foundParallelLines |-> FALSE, discardedParallelLines |-> FALSE,
   foundGoalAreaLine |-> FALSE, discardedGoalAreaLine |-> FALSE,
   foundGroundLine |-> FALSE, discardedGroundLine |-> FALSE]

\* a body that goes on to the measurement without the record-now flag
TripleBodyRecording(acc, cand, config, doRecord, parallelLinesRange) ==
  IF acc.failed THEN acc
  ELSE IF ~cand.fit THEN [acc EXCEPT !.visible = TRUE]
  ELSE IF isInside(parallelLinesRange, cand.distance)
       THEN ADD_SAMPLE(
              ADD_SAMPLE(
                ADD_SAMPLE([acc EXCEPT !.visible = TRUE, !.foundParallelLines = TRUE],
                           config, "cornerAngle",
                           cand.i, IF cand.len2 < cand.len3 THEN cand.j ELSE cand.k),
                config, "parallelAngle", cand.j, cand.k),
              config, "parallelLinesDistance", cand.j, cand.k)
       ELSE [acc EXCEPT !.visible = TRUE, !.discardedParallelLines = TRUE]

\* the body of the loop over (i, j, k) from line 398 on
TripleBody(acc, cand, config, doRecord, parallelLinesRange) ==
  IF acc.failed THEN acc
  ELSE LET seen == [acc EXCEPT !.visible = TRUE] IN
       IF ~doRecord THEN seen
       ELSE IF ~cand.fit THEN seen
       ELSE IF isInside(parallelLinesRange, cand.distance)
            THEN ADD_SAMPLE(
                   ADD_SAMPLE(
                     ADD_SAMPLE([seen EXCEPT !.foundParallelLines = TRUE], config, "cornerAngle",
                                cand.i, IF cand.len2 < cand.len3 THEN cand.j ELSE cand.k),
                     config, "parallelAngle", cand.j, cand.k),
                   config, "parallelLinesDistance", cand.j, cand.k)
            ELSE [seen EXCEPT !.discardedParallelLines = TRUE]

RECURSIVE TripleLoop(_, _, _, _, _, _)
TripleLoop(acc, cands, n, config, doRecord, parallelLinesRange) ==
  IF n > Len(cands) THEN acc
  ELSE TripleLoop(TripleBody(acc, cands[n], config, doRecord, parallelLinesRange),
                  cands, n + 1, config, doRecord, parallelLinesRange)

\* a body that records when one of the two distances is accepted
PairBodyEither(acc, cand, config, doRecord, goalAreaDisRange, groundLineDisRange) ==
  IF acc.failed THEN acc
  ELSE LET seen == [acc EXCEPT !.visible = TRUE] IN
       IF ~doRecord THEN seen
       ELSE IF ~cand.fit THEN seen
       ELSE LET cLineGoalArea == IF cand.firstFarther THEN cand.j ELSE cand.i
                cLineGroundLine == IF cand.firstFarther THEN cand.i ELSE cand.j
                goalAreaLineDistanceValid == isInside(goalAreaDisRange, cand.goalAreaLineDistance)
                groundLineDistanceValid == isInside(groundLineDisRange, cand.groundLineDistance)
                marked == [seen EXCEPT
                             !.foundGoalAreaLine = @ \/ goalAreaLineDistanceValid,
                             !.discardedGoalAreaLine = @ \/ ~goalAreaLineDistanceValid,
                             !.foundGroundLine = @ \/ groundLineDistanceValid,
                             !.discardedGroundLine = @ \/ ~groundLineDistanceValid]
            IN IF ~goalAreaLineDistanceValid /\ ~groundLineDistanceValid
               THEN marked
               ELSE ADD_SAMPLE(
                      ADD_SAMPLE(
                        ADD_SAMPLE(
                          ADD_SAMPLE(marked, config, "goalAreaDistance", "penaltyMark", cLineGoalArea),
                          config, "groundLineDistance", "penaltyMark", cLineGroundLine),
                        config, "parallelAngle", cLineGoalArea, cLineGroundLine),
                      config, "parallelLinesDistance", cLineGoalArea, cLineGroundLine)

\* the body of the loop over (i, j) from line 461 on
PairBody(acc, cand, config, doRecord, goalAreaDisRange, groundLineDisRange) ==
  IF acc.failed THEN acc
  ELSE LET seen == [acc EXCEPT !.visible = TRUE] IN
       IF ~doRecord THEN seen
       ELSE IF ~cand.fit THEN seen
       ELSE LET cLineGoalArea == IF cand.firstFarther THEN cand.j ELSE cand.i
                cLineGroundLine == IF cand.firstFarther THEN cand.i ELSE cand.j
                goalAreaLineDistanceValid == isInside(goalAreaDisRange, cand.goalAreaLineDistance)
                groundLineDistanceValid == isInside(groundLineDisRange, cand.groundLineDistance)
                marked == [seen EXCEPT
                             !.foundGoalAreaLine = @ \/ goalAreaLineDistanceValid,
                             !.discardedGoalAreaLine = @ \/ ~goalAreaLineDistanceValid,
                             !.foundGroundLine = @ \/ groundLineDistanceValid,
                             !.discardedGroundLine = @ \/ ~groundLineDistanceValid]
            IN IF ~goalAreaLineDistanceValid \/ ~groundLineDistanceValid
               THEN marked
               ELSE ADD_SAMPLE(
                      ADD_SAMPLE(
                        ADD_SAMPLE(
                          ADD_SAMPLE(marked, config, "goalAreaDistance", "penaltyMark", cLineGoalArea),
                          config, "groundLineDistance", "penaltyMark", cLineGroundLine),
                        config, "parallelAngle", cLineGoalArea, cLineGroundLine),
                      config, "parallelLinesDistance", cLineGoalArea, cLineGroundLine)

RECURSIVE PairLoop(_, _, _, _, _, _, _)
PairLoop(acc, cands, n, config, doRecord, goalAreaDisRange, groundLineDisRange) ==
  IF n > Len(cands) THEN acc
  ELSE PairLoop(PairBody(acc, cands[n], config, doRecord, goalAreaDisRange, groundLineDisRange),
                cands, n + 1, config, doRecord, goalAreaDisRange, groundLineDisRange)

\* currentSampleConfiguration->camera == CameraInfo::upper ? ...Upper : ...Lower
RangeOf(kind, camera) ==
  IF camera = "upper"
  THEN (CASE kind = "parallel" -> "parallelDisRangeUpper"
          [] kind = "goalArea" -> "goalAreaDisRangeUpper"
          [] kind = "groundLine" -> "groundLineDisRangeUpper")
  ELSE (CASE kind = "parallel" -> "parallelDisRangeLower"
          [] kind = "goalArea" -> "goalAreaDisRangeLower"
          [] kind = "groundLine" -> "groundLineDisRangeLower")

\* a condition that does not wait for the distance types
CornerParallelGuardAlone(config, table, percept) ==
  And3(Bool3(percept.lines >= 3 /\ percept.lines <= 8),
       Or3(Need(config, table, "cornerAngle"),
           Or3(Need(config, table, "parallelAngle"),
               Need(config, table, "parallelLinesDistance"))))

\* the condition of line 354..356
CornerParallelGuard(config, table, percept) ==
  And3(Bool3(percept.lines >= 3 /\ percept.lines <= 8),
       And3(Or3(Need(config, table, "cornerAngle"),
                Or3(Need(config, table, "parallelAngle"),
                    Need(config, table, "parallelLinesDistance"))),
            Not3(Or3(Need(config, table, "goalAreaDistance"),
                     Need(config, table, "groundLineDistance")))))

\* the condition of line 436..437
MarkLineGuard(config, table, percept) ==
  And3(Bool3(percept.wasSeen /\ percept.lines >= 2 /\ percept.lines <= 8),
       Or3(Need(config, table, "goalAreaDistance"),
           Need(config, table, "groundLineDistance")))

\* the condition of line 499..503
NothingOutstanding(config, table) ==
  And3(Not3(Need(config, table, "cornerAngle")),
       And3(Not3(Need(config, table, "parallelAngle")),
            And3(Not3(Need(config, table, "parallelLinesDistance")),
                 And3(Not3(Need(config, table, "goalAreaDistance")),
                      Not3(Need(config, table, "groundLineDistance"))))))

Abort(self) == [self EXCEPT !.aborted = TRUE]

\* the object after a loop that ended in the loop state acc
Looped(self, acc) ==
  [self EXCEPT !.samples = acc.samples,
               !.allRequiredFeaturesVisible = @ \/ acc.visible,
               !.aborted = acc.failed]

\* lines 430..433, after the loop over the triples
AfterTripleLoop(self, acc, doRecord, range) ==
  IF acc.failed THEN Looped(self, acc)
  ELSE IF doRecord
       THEN INCREASE_RANGE(Looped(self, acc), acc.discardedParallelLines, acc.foundParallelLines,
                           "numOfDiscardedParallelLines", range)
       ELSE Looped(self, acc)

\* a loop that ends after its first candidate
TripleLoopOfFirst(self, config, doRecord, percept) ==
  TripleLoop(LoopStart(self.samples),
             SubSeq(percept.triples, 1, Min(1, Len(percept.triples))), 1, config, doRecord,
             self[RangeOf("parallel", config.camera)])

\* the loop state after the loop over the triples
TripleLoopOf(self, config, doRecord, percept) ==
  TripleLoop(LoopStart(self.samples), percept.triples, 1, config, doRecord,
             self[RangeOf("parallel", config.camera)])

CornerParallelBlock(self, guard, config, doRecord, percept) ==
  IF guard = "assert" THEN Abort(self)
  ELSE IF guard = "no" THEN self
  ELSE AfterTripleLoop(self, TripleLoopOf(self, config, doRecord, percept),
                       doRecord, RangeOf("parallel", config.camera))

\* lines 353..434: the corner/parallel search
CornerParallelSearch(self, config, doRecord, percept) ==
  CornerParallelBlock(self, CornerParallelGuard(config, self.samples, percept),
                      config, doRecord, percept)

\* lines 491..495, after the loop over the pairs
AfterPairLoop(self, acc, doRecord, goalAreaDisRange, groundLineDisRange) ==
  IF acc.failed THEN Looped(self, acc)
  ELSE IF doRecord
       THEN INCREASE_RANGE(
              INCREASE_RANGE(Looped(self, acc), acc.discardedGoalAreaLine, acc.foundGoalAreaLine,
                             "numOfDiscardedGoalAreaLines", goalAreaDisRange),
              acc.discardedGroundLine, acc.foundGroundLine,
              "numOfDiscardedGroundLines", groundLineDisRange)
       ELSE Looped(self, acc)

\* the loop state after the loop over the pairs
PairLoopOf(self, config, doRecord, percept) ==
  PairLoop(LoopStart(self.samples), percept.pairs, 1, config, doRecord,
           self[RangeOf("goalArea", config.camera)], self[RangeOf("groundLine", config.camera)])

MarkLineBlock(self, guard, config, doRecord, percept) ==
  IF guard = "assert" THEN Abort(self)
  ELSE IF guard = "no" THEN self
  ELSE AfterPairLoop(self, PairLoopOf(self, config, doRecord, percept), doRecord,
                     RangeOf("goalArea", config.camera), RangeOf("groundLine", config.camera))

\* lines 436..496: the mark/line search
MarkLineSearch(self, config, doRecord, percept) ==
  IF self.aborted THEN self
  ELSE MarkLineBlock(self, MarkLineGuard(config, self.samples, percept),
                     config, doRecord, percept)

\* a block that reports the visibility and keeps the counters
HeadMovementBlockKeeping(self, done) ==
  IF done = "assert" THEN Abort(self)
  ELSE IF done = "yes"
       THEN [self EXCEPT !.allRequiredFeaturesVisible = TRUE]
       ELSE self

HeadMovementBlock(self, done) ==
  IF done = "assert" THEN Abort(self)
  ELSE IF done = "yes"
       THEN [self EXCEPT !.numOfDiscardedParallelLines = 0,
                         !.numOfDiscardedGoalAreaLines = 0,
                         !.numOfDiscardedGroundLines = 0,
                         !.allRequiredFeaturesVisible = TRUE]
       ELSE self

\* lines 498..507: make sure the head movement is registered
RegisterHeadMovement(self, config) ==
  IF self.aborted THEN self
  ELSE HeadMovementBlock(self, NothingOutstanding(config, self.samples))

\* lines 353..507, with the active configuration and the record-now flag
Collect(self, config, doRecord, percept) ==
  RegisterHeadMovement(
    MarkLineSearch(
      CornerParallelSearch([self EXCEPT !.allRequiredFeaturesVisible = FALSE],
                           config, doRecord, percept),
      config, doRecord, percept),
    config)

\* a pass that does not compare the cameras
recordSamplesAnyCamera(self, theRequest, theCameraInfo, percept) ==
  Collect(self, self.currentSampleConfiguration[1],
          theRequest.sampleConfigurationRequest[1].doRecord, percept)

recordSamples(self, theRequest, theCameraInfo, percept) ==
  IF theCameraInfo.camera # self.currentSampleConfiguration[1].camera
  THEN self
  ELSE Collect(self, self.currentSampleConfiguration[1],
               theRequest.sampleConfigurationRequest[1].doRecord, percept)

(***************************************************************************)
(* pack, unpack                                                            *)
(***************************************************************************)
\* one degree in the unit of the angles of the model (a hundredth of a degree)
OneDegree == 100

Abs(x) == IF x < 0 THEN -x ELSE x

\* std::fmod: the remainder has the sign of x
fmod(x, y) == IF x >= 0 THEN x % y ELSE -((-x) % y)

CameraCalibration(lowerX, lowerY, upperX, upperY, bodyX, bodyY) ==
  [cameraRotationCorrections |->
     [lower |-> [x |-> lowerX, y |-> lowerY], upper |-> [x |-> upperX, y |-> upperY]],
   bodyRotationCorrection |-> [x |-> bodyX, y |-> bodyY]]

\* the order of the parameters: lowerCameraRollCorrection, lowerCameraTiltCorrection,
\* upperCameraRollCorrection, upperCameraTiltCorrection, bodyRollCorrection,
\* bodyTiltCorrection
pack(calibration) ==
  <<calibration.cameraRotationCorrections.lower.x,
    calibration.cameraRotationCorrections.lower.y,
    calibration.cameraRotationCorrections.upper.x,
    calibration.cameraRotationCorrections.upper.y,
    calibration.bodyRotationCorrection.x,
    calibration.bodyRotationCorrection.y>>

\* an unpack that writes the parameters as they are
unpackUnnormalized(params, calibration) ==
  [calibration EXCEPT
     !.cameraRotationCorrections.lower.x = params[1],
     !.cameraRotationCorrections.lower.y = params[2],
     !.cameraRotationCorrections.upper.x = params[3],
     !.cameraRotationCorrections.upper.y = params[4],
     !.bodyRotationCorrection.x = params[5],
     !.bodyRotationCorrection.y = params[6]]

unpack(params, calibration) ==
  [calibration EXCEPT
     !.cameraRotationCorrections.lower.x = fmod(params[1], 360 * OneDegree),
     !.cameraRotationCorrections.lower.y = fmod(params[2], 360 * OneDegree),
     !.cameraRotationCorrections.upper.x = fmod(params[3], 360 * OneDegree),
     !.cameraRotationCorrections.upper.y = fmod(params[4], 360 * OneDegree),
     !.bodyRotationCorrection.x = fmod(params[5], 360 * OneDegree),
     !.bodyRotationCorrection.y = fmod(params[6], 360 * OneDegree)]

(***************************************************************************)
(* resetOptimization                                                       *)
(* The outcome of the calls the optimizer makes outside this file is the   *)
(* cycle's `oracle`: [delta, parameters, invalid, error, seed]: the return *)
(* value of optimizer->iterate and the parameters it leaves, whether some  *)
(* sample's error at these parameters is >= notValidError, the mean error  *)
(* of the samples at these parameters, the state of rand().                *)
(***************************************************************************)
\* the largest value of rand() (RAND_MAX) in the model
RandMax == 2

\* the n-th value returned by rand() from the state `seed`
rand(seed, n) == (seed + n - 1) % (RandMax + 1)

\* a restart that adds the random offset to the parameters of the failed step
PerturbationAdded(oracle, params, n) ==
  params[n] + ((rand(oracle.seed, n) * OneDegree) \div RandMax - OneDegree \div 2)

\* (float(rand()) / float(RAND_MAX)) * 1_deg - 0.5_deg, assigned to parameter n
Perturbation(oracle, params, n) ==
  (rand(oracle.seed, n) * OneDegree) \div RandMax - OneDegree \div 2

\* the parameters after the six assignments of lines 577..582
Perturbed(self, oracle) ==
  [n \in 1..NumOfParameters |-> Perturbation(oracle, self.optimizationParameters, n)]

\* lines 586..589
Cleared(self) ==
  [self EXCEPT !.optimizer = FALSE,
               !.lowestDelta = FloatMax,
               !.lowestDeltaParameters = ZeroParameters,
               !.optimizationSteps = 0]

\* lines 576..583
Restarted(self, perturbed) ==
  [self EXCEPT !.optimizationParameters = perturbed,
               !.nextCameraCalibration = unpack(perturbed, self.nextCameraCalibration)]

resetOptimization(self, finished, oracle) ==
  IF finished
  THEN Cleared([self EXCEPT !.state = "idle"])
  ELSE Cleared(Restarted(self, Perturbed(self, oracle)))

(***************************************************************************)
(* optimize                                                                *)
(***************************************************************************)
\* the base of the termination threshold
terminationCriterion == 5

isfinite(x) == x # NaN

\* a threshold whose multiplier grows by one with every 500 steps
TerminationThresholdByOne(optimizationSteps) ==
  terminationCriterion * (1 + (optimizationSteps \div 500))

\* terminationCriterion * std::max(1u, optimizationSteps / 500 * 50)
TerminationThreshold(optimizationSteps) ==
  terminationCriterion * Max(1, (optimizationSteps \div 500) * 50)

\* a tracker that keeps the latest qualifying parameters instead of the best
TrackLatestError(self, error) ==
  IF self.successiveConvergences > 0
  THEN [self EXCEPT !.lowestError = error,
                    !.lowestErrorParameters = self.optimizationParameters]
  ELSE self

\* lines 547..558
TrackLowestError(self, error) ==
  IF self.successiveConvergences > 0
  THEN IF self.successiveConvergences = 1 \/ Less(error, self.lowestError)
       THEN [self EXCEPT !.lowestError = error,
                         !.lowestErrorParameters = self.optimizationParameters]
       ELSE self
  ELSE self

\* a step that counts a failed step as a convergence before restarting
DivergedCounting(self, oracle) ==
  resetOptimization([self EXCEPT !.successiveConvergences = @ + 1], FALSE, oracle)

\* lines 521..534: the step is not accepted
Diverged(self, oracle) == resetOptimization(self, FALSE, oracle)

\* error /= static_cast<float>(samples.size())
MeanError(self, oracle) == IF Len(self.samples) = 0 THEN NaN ELSE oracle.error

\* lines 537..541
TrackLowestDelta(self, delta) ==
  IF Abs(delta) < self.lowestDelta
  THEN [self EXCEPT !.lowestDelta = Abs(delta),
                    !.lowestDeltaParameters = self.optimizationParameters]
  ELSE self

\* a count that a step above the threshold leaves as it is
CountConvergenceNoReset(self, delta) ==
  [self EXCEPT !.optimizationSteps = @ + 1,
               !.successiveConvergences =
                  IF Abs(delta) < TerminationThreshold(self.optimizationSteps + 1)
                  THEN @ + 1 ELSE @]

\* lines 542..546
CountConvergence(self, delta) ==
  [self EXCEPT !.optimizationSteps = @ + 1,
               !.successiveConvergences =
                  IF Abs(delta) < TerminationThreshold(self.optimizationSteps + 1)
                  THEN @ + 1 ELSE 0]

\* lines 559..566
FinishStep(self, oracle) ==
  IF self.successiveConvergences >= minSuccessiveConvergences
  THEN resetOptimization(
         [self EXCEPT !.nextCameraCalibration =
            unpack(self.lowestErrorParameters, self.nextCameraCalibration)],
         TRUE, oracle)
  ELSE [self EXCEPT !.nextCameraCalibration =
          unpack(self.optimizationParameters, self.nextCameraCalibration)]

\* lines 536..566: the step is accepted
Accepted(self, oracle) ==
  FinishStep(
    TrackLowestError(
      CountConvergence(TrackLowestDelta(self, oracle.delta), oracle.delta),
      MeanError(self, oracle)),
    oracle)

\* optimizer->iterate(optimizationParameters, ...) updates the parameters in place
Iterated(self, oracle) == [self EXCEPT !.optimizationParameters = oracle.parameters]

\* Functor::operator() dereferences samples[measurement] for every measurement
EmptySlot(table) == \E n \in 1..Len(table) : table[n] = NoSample

\* an optimize whose first call keeps the count of successive convergences
optimizeKeepingCount(self, calibration, oracle) ==
  IF ~self.optimizer
  THEN [self EXCEPT !.optimizer = TRUE,
                    !.optimizationParameters = pack(calibration)]
  ELSE IF EmptySlot(self.samples)
       THEN Abort(self)
       ELSE IF ~isfinite(oracle.delta)
            THEN Diverged(Iterated(self, oracle), oracle)
            ELSE IF Len(self.samples) > 0 /\ oracle.invalid
                 THEN Diverged(Iterated(self, oracle), oracle)
                 ELSE Accepted(Iterated(self, oracle), oracle)

optimize(self, calibration, oracle) ==
  IF ~self.optimizer
  THEN [self EXCEPT !.optimizer = TRUE,
                    !.optimizationParameters = pack(calibration),
                    !.successiveConvergences = 0]
  ELSE IF EmptySlot(self.samples)
       THEN Abort(self)
       ELSE IF ~isfinite(oracle.delta)
            THEN Diverged(Iterated(self, oracle), oracle)
            ELSE IF Len(self.samples) > 0 /\ oracle.invalid
                 THEN Diverged(Iterated(self, oracle), oracle)
                 ELSE Accepted(Iterated(self, oracle), oracle)

(***************************************************************************)
(* update(CameraCalibration&)                                              *)
(* in: [request, calibration, time, converge, camera, image, percept,      *)
(*      oracle]                                                            *)
(***************************************************************************)
\* a start that does not test the run state
StartRequestedAnyState(self, in) ==
  IF in.request.targetState = "recordSamples"
  THEN [self EXCEPT !.optimizer = FALSE,
                    !.successiveConvergences = 0,
                    !.optimizationSteps = 0,
                    !.samples = [n \in 1..in.request.totalNumOfSamples |-> NoSample],
                    !.nextCameraCalibration = in.calibration,
                    !.state = "recordSamples",
                    !.inStateSince = in.time]
  ELSE self

\* lines 69..81: calibration start requested
StartRequested(self, in) ==
  IF self.state = "idle" /\ in.request.targetState = "recordSamples"
  THEN [self EXCEPT !.optimizer = FALSE,
                    !.successiveConvergences = 0,
                    !.optimizationSteps = 0,
                    !.samples = [n \in 1..in.request.totalNumOfSamples |-> NoSample],
                    !.nextCameraCalibration = in.calibration,
                    !.state = "recordSamples",
                    !.inStateSince = in.time]
  ELSE self

\* a cancellation that also empties the sample table
AbortRequestedClearing(self, in) ==
  IF in.request.targetState = "idle" /\ self.state # "idle"
  THEN [self EXCEPT !.state = "idle", !.inStateSince = in.time,
                    !.samples = [n \in 1..Len(self.samples) |-> NoSample]]
  ELSE self

\* lines 83..88: abort requested
AbortRequested(self, in) ==
  IF in.request.targetState = "idle" /\ self.state # "idle"
  THEN [self EXCEPT !.state = "idle", !.inStateSince = in.time]
  ELSE self

\* lines 91..99: DEBUG_RESPONSE_ONCE("module:AutomaticCameraCalibrator:converge")
ConvergeRequested(self, in) ==
  IF in.converge /\ self.optimizer /\ self.lowestDelta # FloatMax
  THEN resetOptimization(
         [self EXCEPT !.nextCameraCalibration =
            unpack(self.lowestDeltaParameters, self.nextCameraCalibration)],
         TRUE, in.oracle)
  ELSE self

\* lines 101..105
RecordIfRecording(self, in) ==
  IF /\ self.state = "recordSamples"
     /\ self.currentSampleConfiguration # NoConfiguration
     /\ in.request.sampleConfigurationRequest # NoRequest
     /\ in.image
  THEN recordSamples(self, in.request, [camera |-> in.camera], in.percept)
  ELSE self

\* lines 107..111
OptimizeRequested(self, in) ==
  IF self.aborted THEN self
  ELSE IF in.request.targetState = "optimize" /\ self.state # "optimize"
       THEN [self EXCEPT !.state = "optimize", !.inStateSince = in.time]
       ELSE self

\* lines 113..114
OptimizeIfOptimizing(self, in) ==
  IF self.aborted THEN self
  ELSE IF self.state = "optimize" THEN optimize(self, in.calibration, in.oracle) ELSE self

\* a cycle that does not copy the input calibration at line 66
BeforeConvergeStale(self, in) ==
  AbortRequested(StartRequested(updateSampleConfiguration(self, in.request), in), in)

\* the object when line 91 is reached
BeforeConverge(self, in) ==
  AbortRequested(
    StartRequested(
      updateSampleConfiguration(
        [self EXCEPT !.nextCameraCalibration = in.calibration],
        in.request),
      in),
    in)

\* the object when line 101 is reached
BeforeRecord(self, in) == ConvergeRequested(BeforeConverge(self, in), in)

\* the object when line 113 is reached
BeforeOptimize(self, in) == OptimizeRequested(RecordIfRecording(BeforeRecord(self, in), in), in)

update(self, in) == OptimizeIfOptimizing(BeforeOptimize(self, in), in)

(***************************************************************************)
(* update(CameraCalibrationStatus&)                                        *)
(***************************************************************************)
\* samplesExist as executed: "yes", "no", or "undefined" when it reads
\* samples[sampleIndex] past the end of the table
RECURSIVE samplesExistRead(_, _, _, _)
samplesExistRead(config, table, n, sampleIndex) ==
  IF n > Len(SampleType) THEN "yes"
  ELSE IF SampleType[n] \in config.sampleTypes
       THEN IF ~IndexInTable(table, sampleIndex) THEN "undefined"
            ELSE IF table[sampleIndex + 1] = NoSample THEN "no"
            ELSE samplesExistRead(config, table, n + 1, sampleIndex + 1)
       ELSE samplesExistRead(config, table, n + 1, sampleIndex)

\* the outcomes of line 209: a read past the end of the table is undefined
\* behaviour, which returns either value or ends the process
SamplesExistOutcomes(self) ==
  IF self.currentSampleConfiguration = NoConfiguration THEN {"no"}
  ELSE LET read == samplesExistRead(self.currentSampleConfiguration[1], self.samples, 1,
                                    self.currentSampleConfiguration[1].sampleIndexBase)
       IN IF read = "undefined" THEN {"yes", "no", "crash"} ELSE {read}

\* whether line 209 reads samples[sampleIndex] past the end of the table
SamplesExistOverrun(self) ==
  /\ self.currentSampleConfiguration # NoConfiguration
  /\ samplesExistRead(self.currentSampleConfiguration[1], self.samples, 1,
                      self.currentSampleConfiguration[1].sampleIndexBase) = "undefined"

\* a status that reports finished before looking at the sample table
StatusOfFinishedFirst(self, theRequest, exist) ==
  IF theRequest.sampleConfigurationRequest = NoRequest THEN "none"
  ELSE IF self.currentSampleConfiguration # NoConfiguration THEN "finished"
  ELSE IF self.allRequiredFeaturesVisible THEN "visible" ELSE "notVisible"

\* lines 202..211; self is the object after updateSampleConfiguration
StatusOf(self, theRequest, exist) ==
  IF theRequest.sampleConfigurationRequest = NoRequest THEN "none"
  ELSE IF exist = "yes" THEN "finished"
  ELSE IF self.allRequiredFeaturesVisible /\ theRequest.sampleConfigurationRequest[1].doRecord
       THEN "recording"
  ELSE IF self.allRequiredFeaturesVisible THEN "visible"
  ELSE "notVisible"

(***************************************************************************)
(* The inputs of a cycle                                                   *)
(* An envelope names the sets the inputs of a behaviour are drawn from:    *)
(*   targets, masks, cameras, records, totals: the calibration request     *)
(*   images, views, percepts: whether there is an image, the camera that   *)
(*   took it and what was seen in it (glances: in a cycle that does not    *)
(*   record, where the measured distances are not read)                    *)
(*   cycles, configurations: the number of cycles of a behaviour and of    *)
(*   the configurations requested in it                                    *)
(*   calibrations, converges, oracles: the optimizer's inputs              *)
(***************************************************************************)
\* most cycles of a behaviour of the sample collector
MaxTime == 3
\* most sample configurations requested in a behaviour
MaxConfigurations == 2

States == {"idle", "recordSamples", "optimize"}
Cameras == {"lower", "upper"}

\* the next request: the index stays or advances by one; a request that keeps
\* the index keeps the camera and the types of the configuration it names
ConfigurationRequests(self, E) ==
  {<<[index |-> self.lastSampleConfigurationIndex, camera |-> c.camera,
      sampleTypes |-> c.sampleTypes, doRecord |-> d]>> :
     c \in {self.currentSampleConfiguration[n] : n \in 1..Len(self.currentSampleConfiguration)},
     d \in E.records}
  \cup
  (IF self.lastSampleConfigurationIndex + 1 < E.configurations
   THEN {<<[index |-> self.lastSampleConfigurationIndex + 1, camera |-> c,
            sampleTypes |-> m, doRecord |-> d]>> : c \in E.cameras, m \in E.masks, d \in E.records}
   ELSE {})

Requests(self, E) ==
  {[targetState |-> t, sampleConfigurationRequest |-> r, totalNumOfSamples |-> n] :
     t \in E.targets, r \in E.noRequest \cup ConfigurationRequests(self, E), n \in E.totals}

\* measured distances: inside the initial range of each kind, and outside it by
\* less than one widening
Inside(kind) == InitialCalibrator[RangeOf(kind, "lower")].min
Outside(kind) == InitialCalibrator[RangeOf(kind, "lower")].max + 1

Triple(f, d, l) ==
  [i |-> 1, j |-> 2, k |-> 3, fit |-> f, distance |-> d, len2 |-> l, len3 |-> 2]

Pair(f, g, l) ==
  [i |-> 1, j |-> 2, firstFarther |-> FALSE, fit |-> f,
   goalAreaLineDistance |-> g, groundLineDistance |-> l]

Percept(n, w, t, p) == [lines |-> n, wasSeen |-> w, triples |-> t, pairs |-> p]

NoPercept == Percept(0, FALSE, <<>>, <<>>)

NoOracle == [delta |-> NaN, parameters |-> ZeroParameters, invalid |-> FALSE, error |-> 0, seed |-> 0]

\* whether recordSamples runs in a cycle that reaches line 101 with `self`
Records(self, theRequest) ==
  /\ self.state = "recordSamples"
  /\ self.currentSampleConfiguration # NoConfiguration
  /\ theRequest.sampleConfigurationRequest # NoRequest

\* whether optimize makes a step in a cycle that reaches line 113 with `self`
Steps(self) == self.state = "optimize" /\ self.optimizer /\ ~EmptySlot(self.samples)

(***************************************************************************)
(* History of a cycle, kept in `trace`:                                    *)
(*   pass      what the sample collector saw and decided in this cycle     *)
(*   repeated  whether the pass saw what the pass of the cycle before saw,  *)
(*             which did not record                                        *)
(*   before    run state, number of filled slots, ranges, counters and     *)
(*             optimizer values when the cycle began                       *)
(*   step      what optimize did: "none", "initialized", "crashed",        *)
(*             "diverged", "accepted"                                      *)
(*   delta     the delta of the step, when optimize accepted it            *)
(*   converge  whether the debug request `converge` took effect            *)
(*   run       per range, the rejecting passes since the last accepting    *)
(*             pass, counted up to discardsUntilIncrease                   *)
(*   kindRun   the same per kind of range, whichever camera the passes were *)
(*             for                                                         *)
(*   streak    the parameters and mean errors of the qualifying steps in   *)
(*             a row that end at the last step                             *)
(*   changed   the frame time of the last cycle in which the run state was *)
(*             assigned a value other than the one it had                  *)
(*   asked     the sample types asked for by the configuration that is     *)
(*             active when the run starts and by those created since       *)
(*   pass.early  the sample table after the first candidate of the search  *)
(*             that ran in the pass                                        *)
(*   overrun   whether a slot index that is not smaller than the size of   *)
(*             the sample table was computed and used                      *)
(*   image, view  whether the cycle had an image, and the camera of        *)
(*             theCameraInfo                                               *)
(*   contributors  per kind of range, the cameras of the rejecting passes  *)
(*             counted in the kind's discard counter since it was last 0   *)
(***************************************************************************)
Kinds == {"parallel", "goalArea", "groundLine"}

Ranges == {RangeOf(k, c) : k \in Kinds, c \in Cameras}

\* the discard counter INCREASE_RANGE is called with for a kind of range
CounterOf(kind) ==
  CASE kind = "parallel" -> "numOfDiscardedParallelLines"
    [] kind = "goalArea" -> "numOfDiscardedGoalAreaLines"
    [] kind = "groundLine" -> "numOfDiscardedGroundLines"

NoFlags == [k \in Kinds |-> FALSE]

NoPass ==
  [ran |-> FALSE, camera |-> "lower", doRecord |-> FALSE, percept |-> NoPercept,
   outstanding |-> {}, early |-> <<>>, found |-> NoFlags, discarded |-> NoFlags]

\* the requested types of the configuration that have no sample yet
Outstanding(config, table) == {x \in SampleTypes : Need(config, table, x) = "yes"}

PassWith(config, doRecord, percept, outstanding, early, triples, pairs) ==
  [ran |-> TRUE, camera |-> config.camera, doRecord |-> doRecord, percept |-> percept,
   outstanding |-> outstanding,
   early |-> early,
   found |-> [k \in Kinds |->
                CASE k = "parallel" -> triples.foundParallelLines
                  [] k = "goalArea" -> pairs.foundGoalAreaLine
                  [] k = "groundLine" -> pairs.foundGroundLine],
   discarded |-> [k \in Kinds |->
                CASE k = "parallel" -> triples.discardedParallelLines
                  [] k = "goalArea" -> pairs.discardedGoalAreaLine
                  [] k = "groundLine" -> pairs.discardedGroundLine]]

\* the flags of the mark/line search, which starts from the object `searched`
\* the corner/parallel search leaves
PairFlags(searched, config, doRecord, percept) ==
  IF ~searched.aborted /\ MarkLineGuard(config, searched.samples, percept) = "yes"
  THEN PairLoopOf(searched, config, doRecord, percept)
  ELSE LoopStart(searched.samples)

TripleFlags(self, config, doRecord, percept) ==
  IF CornerParallelGuard(config, self.samples, percept) = "yes"
  THEN TripleLoopOf(self, config, doRecord, percept)
  ELSE LoopStart(self.samples)

\* the sample table after the first candidate of the search that runs
EarlyTable(self, config, doRecord, percept) ==
  IF CornerParallelGuard(config, self.samples, percept) = "yes" /\ Len(percept.triples) > 0
  THEN TripleLoop(LoopStart(self.samples), SubSeq(percept.triples, 1, 1), 1, config, doRecord,
                  self[RangeOf("parallel", config.camera)]).samples
  ELSE IF MarkLineGuard(config, self.samples, percept) = "yes" /\ Len(percept.pairs) > 0
       THEN PairLoop(LoopStart(self.samples), SubSeq(percept.pairs, 1, 1), 1, config, doRecord,
                     self[RangeOf("goalArea", config.camera)],
                     self[RangeOf("groundLine", config.camera)]).samples
       ELSE self.samples

\* the pass of a cycle that reaches line 101 with `self`
PassOf(self, in) ==
  IF ~(Records(self, in.request) /\ in.image) THEN NoPass
  ELSE IF in.camera # self.currentSampleConfiguration[1].camera THEN NoPass
  ELSE PassWith(self.currentSampleConfiguration[1],
                in.request.sampleConfigurationRequest[1].doRecord, in.percept,
                Outstanding(self.currentSampleConfiguration[1], self.samples),
                EarlyTable(self, self.currentSampleConfiguration[1],
                           in.request.sampleConfigurationRequest[1].doRecord, in.percept),
                TripleFlags(self, self.currentSampleConfiguration[1],
                            in.request.sampleConfigurationRequest[1].doRecord, in.percept),
                PairFlags(CornerParallelSearch(self, self.currentSampleConfiguration[1],
                                               in.request.sampleConfigurationRequest[1].doRecord,
                                               in.percept),
                          self.currentSampleConfiguration[1],
                          in.request.sampleConfigurationRequest[1].doRecord, in.percept))

\* a recording pass in which a measurement for the range of kind k and camera c
\* was rejected and none was accepted
Rejecting(pass, k, c) ==
  pass.ran /\ pass.doRecord /\ pass.camera = c /\ pass.discarded[k] /\ ~pass.found[k]

\* a recording pass in which a measurement for that range was accepted
Accepting(pass, k, c) ==
  pass.ran /\ pass.doRecord /\ pass.camera = c /\ pass.found[k]

RunAfter(run, pass) ==
  [r \in Kinds \X Cameras |->
     IF Accepting(pass, r[1], r[2]) THEN 0
     ELSE IF Rejecting(pass, r[1], r[2])
          THEN (IF run[r] >= discardsUntilIncrease THEN 1 ELSE run[r] + 1)
          ELSE (IF run[r] >= discardsUntilIncrease THEN 0 ELSE run[r])]

KindRunAfter(run, pass) ==
  [k \in Kinds |->
     IF \E c \in Cameras : Accepting(pass, k, c) THEN 0
     ELSE IF \E c \in Cameras : Rejecting(pass, k, c)
          THEN (IF run[k] >= discardsUntilIncrease THEN 1 ELSE run[k] + 1)
          ELSE (IF run[k] >= discardsUntilIncrease THEN 0 ELSE run[k])]

Snapshot(self) ==
  [state |-> self.state,
   filled |-> Cardinality({n \in 1..Len(self.samples) : self.samples[n] # NoSample}),
   ranges |-> [r \in Ranges |-> self[r]],
   counters |-> [k \in Kinds |-> self[CounterOf(k)]],
   successiveConvergences |-> self.successiveConvergences,
   optimizationSteps |-> self.optimizationSteps,
   optimizationParameters |-> self.optimizationParameters]

\* what optimize does in a cycle that reaches line 113 with `self`
StepOf(self, oracle) ==
  IF self.aborted \/ self.state # "optimize" THEN "none"
  ELSE IF ~self.optimizer THEN "initialized"
  ELSE IF EmptySlot(self.samples) THEN "crashed"
  ELSE IF ~isfinite(oracle.delta) \/ (Len(self.samples) > 0 /\ oracle.invalid) THEN "diverged"
  ELSE "accepted"

\* whether |delta| is below the termination threshold of the step
Qualifies(self, oracle) ==
  Abs(oracle.delta) < TerminationThreshold(self.optimizationSteps + 1)

StreakAfter(streak, self, step, started, oracle) ==
  IF started THEN <<>>
  ELSE IF step \in {"initialized", "diverged"} THEN <<>>
  ELSE IF step = "accepted"
       THEN (IF Qualifies(self, oracle)
             THEN Append(streak, [parameters |-> oracle.parameters,
                                  error |-> MeanError(self, oracle)])
             ELSE <<>>)
       ELSE streak

\* the cameras whose rejecting passes the counter of a kind has counted since
\* it was last 0, the pass of this cycle included
ContributorsAfter(contributors, self, pass, after) ==
  [k \in Kinds |->
     IF \E c \in Cameras : Rejecting(pass, k, c)
     THEN (IF self[CounterOf(k)] = 0 THEN {pass.camera} ELSE contributors[k] \cup {pass.camera})
     ELSE IF after[CounterOf(k)] = 0 THEN {} ELSE contributors[k]]

\* whether the cycle takes the branch of lines 69..81
Started(self, in) == self.state = "idle" /\ in.request.targetState = "recordSamples"

\* the frame time of the last change of the run state, over the assignments of
\* a cycle: lines 79 and 86, resetOptimization(true) at line 97, line 109, and
\* resetOptimization(true) in optimize
ChangedAfter(changed, self, in, recorded, before, after) ==
  IF \/ BeforeConverge(self, in).state # self.state
     \/ recorded.state # BeforeConverge(self, in).state
     \/ before.state # RecordIfRecording(recorded, in).state
     \/ after.state # before.state
  THEN in.time
  ELSE changed

\* the number of sample types of the active configuration
TypesOf(self) ==
  IF self.currentSampleConfiguration = NoConfiguration THEN 0
  ELSE Cardinality(self.currentSampleConfiguration[1].sampleTypes)

AskedAfter(asked, self, in) ==
  IF Started(self, in)
  THEN TypesOf(updateSampleConfiguration(self, in.request))
  ELSE asked + (updateSampleConfiguration(self, in.request).numOfSamples - self.numOfSamples)

TraceAfter(old, self, in, recorded, before, after) ==
  [op |-> "update",
   changed |-> ChangedAfter(old.changed, self, in, recorded, before, after),
   asked |-> AskedAfter(old.asked, self, in),
   overrun |-> before.aborted,
   image |-> in.image,
   view |-> in.camera,
   contributors |-> ContributorsAfter(old.contributors, self, PassOf(recorded, in), after),
   pass |-> PassOf(recorded, in),
   repeated |-> /\ old.pass.ran /\ ~old.pass.doRecord
                /\ PassOf(recorded, in).ran /\ old.pass.percept = in.percept,
   before |-> Snapshot(self),
   step |-> StepOf(before, in.oracle),
   delta |-> IF StepOf(before, in.oracle) = "accepted" THEN in.oracle.delta ELSE NaN,
   converge |-> in.converge /\ BeforeConverge(self, in).optimizer
                  /\ BeforeConverge(self, in).lowestDelta # FloatMax,
   run |-> RunAfter(old.run, PassOf(recorded, in)),
   kindRun |-> KindRunAfter(old.kindRun, PassOf(recorded, in)),
   streak |-> StreakAfter(old.streak, before, StepOf(before, in.oracle),
                          Started(self, in), in.oracle)]

(***************************************************************************)
(* The cycle                                                               *)
(***************************************************************************)
NoStatus == [state |-> "idle", inStateSince |-> 0, sampleConfigurationStatus |-> "none"]

NoTrace ==
  [op |-> "none", changed |-> 0, asked |-> 0, overrun |-> FALSE, image |-> FALSE, view |-> "lower",
   contributors |-> [k \in Kinds |-> {}],
   pass |-> NoPass, repeated |-> FALSE, before |-> Snapshot(InitialCalibrator),
   step |-> "none", delta |-> NaN, converge |-> FALSE, run |-> [r \in Kinds \X Cameras |-> 0],
   kindRun |-> [k \in Kinds |-> 0], streak |-> <<>>]

\* the blackboard before the first cycle
BlackboardInit ==
  /\ theCalibrationRequest = [targetState |-> "idle", sampleConfigurationRequest |-> NoRequest,
                              totalNumOfSamples |-> 0]
  /\ theCameraCalibration = CameraCalibration(0, 0, 0, 0, 0, 0)
  /\ theFrameInfo = [time |-> 0]
  /\ cameraCalibration = CameraCalibration(0, 0, 0, 0, 0, 0)
  /\ cameraCalibrationStatus = NoStatus

MachineInit ==
  /\ calibrator = InitialCalibrator
  /\ BlackboardInit
  /\ pc = "CameraCalibration"
  /\ trace = NoTrace

FitLineIdle ==
  /\ houghSpace = <<>>
  /\ minIndex = 0
  /\ maxIndex = 0
  /\ localMaxima = <<>>

Init == MachineInit /\ FitLineIdle

Input(q, c, t, g, k, m, p, o) ==
  [request |-> q, calibration |-> c, time |-> t, converge |-> g, camera |-> k,
   image |-> m, percept |-> p, oracle |-> o]

\* update(CameraCalibration&) with the inputs of the next frame, drawn from
\* the envelope E; an input the cycle does not read keeps a fixed value
UpdateCameraCalibration(E) ==
  /\ pc = "CameraCalibration"
  /\ ~calibrator.aborted
  /\ theFrameInfo.time < E.cycles
  /\ \E q \in Requests(calibrator, E), c \in E.calibrations :
     \E g \in (IF calibrator.optimizer /\ calibrator.lowestDelta # FloatMax
               THEN E.converges ELSE {FALSE}) :
     \E reached \in {BeforeRecord(calibrator,
                        Input(q, c, theFrameInfo.time + 1, g, "lower", FALSE, NoPercept, NoOracle))} :
     \E m \in (IF Records(reached, q) THEN E.images ELSE {FALSE}) :
     \E k \in (IF Records(reached, q) /\ m THEN E.views ELSE {"lower"}) :
     \E p \in (IF Records(reached, q) /\ m /\ k = reached.currentSampleConfiguration[1].camera
               THEN (IF q.sampleConfigurationRequest[1].doRecord THEN E.percepts ELSE E.glances)
               ELSE {NoPercept}) :
     \E before \in {BeforeOptimize(calibrator,
                       Input(q, c, theFrameInfo.time + 1, g, k, m, p, NoOracle))} :
     \E o \in (IF Steps(before) THEN E.oracles ELSE {NoOracle}) :
     \E in \in {Input(q, c, theFrameInfo.time + 1, g, k, m, p, o)} :
     \E after \in {update(calibrator, in)} :
       /\ calibrator' = after
       /\ theCalibrationRequest' = in.request
       /\ theCameraCalibration' = in.calibration
       /\ theFrameInfo' = [time |-> in.time]
       /\ cameraCalibration' = after.nextCameraCalibration
       /\ trace' = TraceAfter(trace, calibrator, in, reached, before, after)
       /\ pc' = "CameraCalibrationStatus"
  /\ UNCHANGED <<cameraCalibrationStatus, houghSpace, minIndex, maxIndex, localMaxima>>

\* update(CameraCalibrationStatus&) in the same frame
UpdateCameraCalibrationStatus ==
  /\ pc = "CameraCalibrationStatus"
  /\ ~calibrator.aborted
  /\ \E self \in {updateSampleConfiguration(calibrator, theCalibrationRequest)} :
     \E exist \in (IF theCalibrationRequest.sampleConfigurationRequest = NoRequest
                   THEN {"no"} ELSE SamplesExistOutcomes(self)) :
       /\ calibrator' = IF exist = "crash" THEN Abort(self) ELSE self
       /\ cameraCalibrationStatus' =
            [state |-> self.state, inStateSince |-> self.inStateSince,
             sampleConfigurationStatus |-> StatusOf(self, theCalibrationRequest, exist)]
       /\ trace' = [trace EXCEPT !.op = "status",
                                 !.overrun = theCalibrationRequest.sampleConfigurationRequest # NoRequest
                                               /\ SamplesExistOverrun(self)]
       /\ pc' = "CameraCalibration"
  /\ UNCHANGED <<theCalibrationRequest, theCameraCalibration, theFrameInfo, cameraCalibration,
                 houghSpace, minIndex, maxIndex, localMaxima>>

(***************************************************************************)
(* The sample collector: a run is started and configurations are recorded  *)
(***************************************************************************)
CollectorEnvelope ==
  [cycles |-> MaxTime - 1,
   configurations |-> MaxConfigurations,
   targets |-> {"recordSamples"},
   noRequest |-> {},
   masks |-> {{"parallelAngle"}, {"goalAreaDistance", "groundLineDistance"}},
   cameras |-> Cameras,
   records |-> BOOLEAN,
   totals |-> {3},
   images |-> {TRUE},
   views |-> Cameras,
   glances |->
     {Percept(2, FALSE, <<>>, <<>>),
      Percept(3, FALSE, <<Triple(TRUE, Inside("parallel"), 1)>>, <<>>),
      Percept(2, TRUE, <<>>, <<Pair(TRUE, Inside("goalArea"), Inside("groundLine"))>>)},
   percepts |->
     {Percept(2, FALSE, <<>>, <<>>)}
     \cup {Percept(3, FALSE, <<Triple(TRUE, d, 1)>>, <<>>) :
             d \in {Inside("parallel"), Outside("parallel")}}
     \cup {Percept(2, TRUE, <<>>, <<Pair(TRUE, g, l)>>) :
             g \in {Inside("goalArea"), Outside("goalArea")},
             l \in {Inside("groundLine"), Outside("groundLine")}},
   calibrations |-> {CameraCalibration(0, 0, 0, 0, 0, 0)},
   converges |-> {FALSE},
   oracles |-> {NoOracle}]

Next == UpdateCameraCalibration(CollectorEnvelope) \/ UpdateCameraCalibrationStatus

Spec == Init /\ [][Next]_vars

(***************************************************************************)
(* The optimizer: a run records one sample, or none, and optimizes         *)
(***************************************************************************)
\* parameters an optimizer step can leave: small angles, and angles of a full
\* turn, of two, and beyond a full turn on either side
StepParameters ==
  {<<3 * OneDegree, -3 * OneDegree, 0, 0, 0, OneDegree>>,
   <<361 * OneDegree, -360 * OneDegree, 0, -2 * OneDegree, 720 * OneDegree,
     -725 * OneDegree>>}

\* outcomes of a step that is not accepted: a delta that is not finite, or a
\* sample whose error is not valid
FailedSteps ==
  {[delta |-> d[1], parameters |-> d[3], invalid |-> d[2], error |-> 0, seed |-> r] :
     d \in {<<NaN, FALSE, <<3 * OneDegree, -3 * OneDegree, 0, 0, 0, OneDegree>>>>,
            <<1, TRUE, <<361 * OneDegree, -360 * OneDegree, 0, -2 * OneDegree,
                         720 * OneDegree, -725 * OneDegree>>>>},
     r \in 0..RandMax}

\* outcomes of an accepted step: |delta| below the termination threshold with
\* the mean error of the samples, or above it
GoodSteps ==
  {[delta |-> 1, parameters |-> v, invalid |-> FALSE, error |-> e, seed |-> 0] :
     v \in StepParameters, e \in {1, 2}}
  \cup {[delta |-> -9, parameters |-> <<3 * OneDegree, -3 * OneDegree, 0, 0, 0, OneDegree>>,
         invalid |-> FALSE, error |-> 1, seed |-> 0]}

OptimizerEnvelope ==
  [cycles |-> MaxTime + 1,
   configurations |-> 1,
   targets |-> States,
   noRequest |-> {NoRequest},
   masks |-> {{"parallelAngle"}},
   cameras |-> {"lower"},
   records |-> {TRUE},
   totals |-> {1},
   images |-> {TRUE},
   views |-> {"lower"},
   glances |-> {Percept(3, FALSE, <<Triple(TRUE, Inside("parallel"), 1)>>, <<>>)},
   percepts |-> {Percept(3, FALSE, <<Triple(TRUE, Inside("parallel"), 1)>>, <<>>)},
   calibrations |-> {CameraCalibration(0, 0, 0, 0, 0, 0),
                     CameraCalibration(2 * OneDegree, 0, 0, 0, 0, -2 * OneDegree)},
   converges |-> BOOLEAN,
   oracles |-> FailedSteps \cup GoodSteps]

NextOptimizer == UpdateCameraCalibration(OptimizerEnvelope) \/ UpdateCameraCalibrationStatus

SpecOptimizer == Init /\ [][NextOptimizer]_vars

(***************************************************************************)
(* Runs: runs are started, cancelled, switched to optimize and started     *)
(* again, each with one sample type per configuration and a table of one   *)
(* slot                                                                    *)
(***************************************************************************)
RunsEnvelope ==
  [cycles |-> MaxTime + 1,
   configurations |-> MaxConfigurations,
   targets |-> States,
   noRequest |-> {NoRequest},
   masks |-> {{"parallelAngle"}},
   cameras |-> {"lower"},
   records |-> {TRUE},
   totals |-> {1},
   images |-> BOOLEAN,
   views |-> {"lower"},
   glances |-> {Percept(3, FALSE, <<Triple(TRUE, Inside("parallel"), 1)>>, <<>>)},
   percepts |-> {Percept(3, FALSE, <<Triple(TRUE, Inside("parallel"), 1)>>, <<>>)},
   calibrations |-> {CameraCalibration(0, 0, 0, 0, 0, 0)},
   converges |-> {FALSE},
   oracles |->
     {[delta |-> NaN, parameters |-> <<3 * OneDegree, -3 * OneDegree, 0, 0, 0, OneDegree>>,
       invalid |-> FALSE, error |-> 0, seed |-> 0],
      [delta |-> 1, parameters |-> <<3 * OneDegree, -3 * OneDegree, 0, 0, 0, OneDegree>>,
       invalid |-> FALSE, error |-> 1, seed |-> 0]}]

NextRuns == UpdateCameraCalibration(RunsEnvelope) \/ UpdateCameraCalibrationStatus

SpecRuns == Init /\ [][NextRuns]_vars

(***************************************************************************)
(* The steps of the optimizer: one cycle starts a run and records its one  *)
(* sample, every later cycle asks for optimize; the frame time is counted  *)
(* up to MaxTime                                                           *)
(***************************************************************************)
\* most optimizer steps since the optimizer was reset
MaxSteps == 1001

\* outcomes of a step: a delta that is not finite, and deltas that are below
\* the termination threshold from the first, the second and the third plateau
\* of 500 steps on
StepOracles ==
  {[delta |-> d, parameters |-> <<3 * OneDegree, -3 * OneDegree, 0, 0, 0, OneDegree>>,
    invalid |-> FALSE, error |-> 1, seed |-> 0] : d \in {NaN, 1, -12, 300}}

StepsEnvelope ==
  [cycles |-> 1,
   configurations |-> 1,
   targets |-> {"recordSamples"},
   noRequest |-> {},
   masks |-> {{"parallelAngle"}},
   cameras |-> {"lower"},
   records |-> {TRUE},
   totals |-> {1},
   images |-> {TRUE},
   views |-> {"lower"},
   glances |-> {Percept(3, FALSE, <<Triple(TRUE, Inside("parallel"), 1)>>, <<>>)},
   percepts |-> {Percept(3, FALSE, <<Triple(TRUE, Inside("parallel"), 1)>>, <<>>)},
   calibrations |-> {CameraCalibration(0, 0, 0, 0, 0, 0)},
   converges |-> {FALSE},
   oracles |-> {NoOracle}]

\* update(CameraCalibration&) in a frame whose request has target state
\* optimize and the sample configuration request of the frame before
UpdateOptimizing ==
  /\ pc = "CameraCalibration"
  /\ ~calibrator.aborted
  /\ theFrameInfo.time >= StepsEnvelope.cycles
  /\ calibrator.optimizationSteps < MaxSteps
  /\ \E q \in {[theCalibrationRequest EXCEPT !.targetState = "optimize"]} :
     \E t \in {Min(theFrameInfo.time + 1, MaxTime)} :
     \E reached \in {BeforeRecord(calibrator,
                        Input(q, theCameraCalibration, t, FALSE, "lower", FALSE, NoPercept, NoOracle))} :
     \E before \in {BeforeOptimize(calibrator,
                       Input(q, theCameraCalibration, t, FALSE, "lower", FALSE, NoPercept, NoOracle))} :
     \E o \in (IF Steps(before) THEN StepOracles ELSE {NoOracle}) :
     \E in \in {Input(q, theCameraCalibration, t, FALSE, "lower", FALSE, NoPercept, o)} :
     \E after \in {update(calibrator, in)} :
       /\ calibrator' = after
       /\ theCalibrationRequest' = in.request
       /\ theFrameInfo' = [time |-> in.time]
       /\ cameraCalibration' = after.nextCameraCalibration
       /\ trace' = TraceAfter(trace, calibrator, in, reached, before, after)
       /\ pc' = "CameraCalibrationStatus"
  /\ UNCHANGED <<theCameraCalibration, cameraCalibrationStatus,
                 houghSpace, minIndex, maxIndex, localMaxima>>

NextSteps ==
  \/ UpdateCameraCalibration(StepsEnvelope)
  \/ UpdateOptimizing
  \/ UpdateCameraCalibrationStatus

SpecSteps == Init /\ [][NextSteps]_vars

(***************************************************************************)
(* The searches: one configuration on the lower camera that asks for types *)
(* of one group or of both, and images with candidate triples and pairs    *)
(* whose lines fitLine refines or not, inside and outside the ranges       *)
(***************************************************************************)
\* candidate triples: refined or not, inside or outside the range, with line j
\* shorter or longer than line k
SearchTriples ==
  {Triple(f, d, l) : f \in BOOLEAN, d \in {Inside("parallel"), Outside("parallel")}, l \in {1, 3}}

\* candidate pairs: refined or not, each distance inside or outside its range
SearchPairs ==
  {Pair(f, g, l) : f \in BOOLEAN,
                   g \in {Inside("goalArea"), Outside("goalArea")},
                   l \in {Inside("groundLine"), Outside("groundLine")}}

\* images with one candidate triple, with two triples inside the range, with
\* a triple that is not refined before one that is, with one candidate pair,
\* with a pair that is not refined before one that is, and with a mark, a
\* triple and a pair
SearchPercepts ==
  {Percept(3, FALSE, <<t>>, <<>>) : t \in SearchTriples}
  \cup {Percept(4, FALSE, <<Triple(TRUE, Inside("parallel"), 1),
                            [Triple(TRUE, Inside("parallel"), 1) EXCEPT !.k = 4]>>, <<>>)}
  \cup {Percept(4, FALSE, <<Triple(FALSE, Inside("parallel"), 1),
                            [Triple(TRUE, d, 1) EXCEPT !.k = 4]>>, <<>>) :
          d \in {Inside("parallel"), Outside("parallel")}}
  \cup {Percept(2, TRUE, <<>>, <<p>>) : p \in SearchPairs}
  \cup {Percept(3, TRUE, <<>>, <<Pair(FALSE, Inside("goalArea"), Inside("groundLine")),
                                 [Pair(TRUE, g, Inside("groundLine")) EXCEPT !.j = 3]>>) :
          g \in {Inside("goalArea"), Outside("goalArea")}}
  \cup {Percept(3, TRUE, <<Triple(TRUE, Inside("parallel"), 1)>>,
                 <<Pair(TRUE, Inside("goalArea"), Inside("groundLine"))>>)}

SearchEnvelope ==
  [cycles |-> MaxTime - 1,
   configurations |-> 1,
   targets |-> {"recordSamples"},
   noRequest |-> {},
   masks |-> {{"cornerAngle", "parallelAngle"},
              {"cornerAngle", "goalAreaDistance"},
              {"parallelAngle", "goalAreaDistance", "groundLineDistance"},
              SampleTypes},
   cameras |-> {"lower"},
   records |-> {TRUE},
   totals |-> {Len(SampleType)},
   images |-> {TRUE},
   views |-> {"lower"},
   glances |-> SearchPercepts,
   percepts |-> SearchPercepts,
   calibrations |-> {CameraCalibration(0, 0, 0, 0, 0, 0)},
   converges |-> {FALSE},
   oracles |-> {NoOracle}]

NextSearch == UpdateCameraCalibration(SearchEnvelope) \/ UpdateCameraCalibrationStatus

SpecSearch == Init /\ [][NextSearch]_vars

(***************************************************************************)
(* The widening of the ranges: the robot stands still in front of one      *)
(* scene; every frame asks to record the same configuration, comes from    *)
(* the configuration's camera and shows the same candidate, whose measured *)
(* distance lies outside the initial range. The scene is the percept of    *)
(* the last pass in `trace`; before the first frame it is the scene the    *)
(* robot was put in front of.                                              *)
(***************************************************************************)
\* most widenings a scene needs before its measurement is inside the range
MaxWidenings == 2

\* frames of a behaviour: the widenings, the frame that accepts, one more
WidenCycles == discardsUntilIncrease * MaxWidenings + 2

\* how far outside the initial range a measurement lies: just beyond the range
\* after w - 1 widenings, and on the bound of the range after w widenings
Gaps ==
  {(w - 1) * increase + 1 : w \in 1..MaxWidenings} \cup {w * increase : w \in 1..MaxWidenings}

\* measured distances outside the initial range of a kind, below and above
OutsideBy(kind) ==
  {InitialCalibrator[RangeOf(kind, "lower")].min - g : g \in Gaps}
  \cup {InitialCalibrator[RangeOf(kind, "lower")].max + g : g \in Gaps}

\* a scene with one candidate triple, and the types its search supplies
TripleScenes ==
  {[percept |-> Percept(3, FALSE, <<Triple(TRUE, d, 1)>>, <<>>), sampleTypes |-> m] :
     d \in OutsideBy("parallel"),
     m \in {{"parallelAngle"}, {"cornerAngle", "parallelLinesDistance"},
            {"cornerAngle", "parallelAngle", "parallelLinesDistance"}}}

\* the two distances of a candidate pair of which one or both are outside
PairDistances ==
  {d \in ({Inside("goalArea")} \cup OutsideBy("goalArea"))
         \X ({Inside("groundLine")} \cup OutsideBy("groundLine")) :
     d[1] # Inside("goalArea") \/ d[2] # Inside("groundLine")}

\* a scene with the penalty mark and one candidate pair, and the types its
\* search supplies
PairScenes ==
  {[percept |-> Percept(2, TRUE, <<>>, <<Pair(TRUE, d[1], d[2])>>), sampleTypes |-> m] :
     d \in PairDistances,
     m \in {{"goalAreaDistance"}, {"goalAreaDistance", "groundLineDistance"},
            {"parallelAngle", "groundLineDistance"}}}

\* the request of every frame: record configuration 0 now, into a table with
\* one slot per requested type
WidenRequest(camera, sampleTypes) ==
  [targetState |-> "recordSamples",
   sampleConfigurationRequest |->
     <<[index |-> 0, camera |-> camera, sampleTypes |-> sampleTypes, doRecord |-> TRUE]>>,
   totalNumOfSamples |-> Cardinality(sampleTypes)]

WidenInit ==
  /\ calibrator = InitialCalibrator
  /\ \E scene \in TripleScenes \cup PairScenes, c \in Cameras :
       /\ theCalibrationRequest = WidenRequest(c, scene.sampleTypes)
       /\ trace = [NoTrace EXCEPT !.view = c, !.pass.percept = scene.percept]
  /\ theCameraCalibration = CameraCalibration(0, 0, 0, 0, 0, 0)
  /\ theFrameInfo = [time |-> 0]
  /\ cameraCalibration = CameraCalibration(0, 0, 0, 0, 0, 0)
  /\ cameraCalibrationStatus = NoStatus
  /\ pc = "CameraCalibration"
  /\ FitLineIdle

\* update(CameraCalibration&) in a frame with the request, the camera and the
\* scene of the frame before
UpdateWidening ==
  /\ pc = "CameraCalibration"
  /\ ~calibrator.aborted
  /\ theFrameInfo.time < WidenCycles
  /\ \E in \in {Input(theCalibrationRequest, theCameraCalibration, theFrameInfo.time + 1, FALSE,
                      trace.view, TRUE, trace.pass.percept, NoOracle)} :
     \E reached \in {BeforeRecord(calibrator, in)} :
     \E before \in {BeforeOptimize(calibrator, in)} :
     \E after \in {update(calibrator, in)} :
       /\ calibrator' = after
       /\ theFrameInfo' = [time |-> in.time]
       /\ cameraCalibration' = after.nextCameraCalibration
       /\ trace' = TraceAfter(trace, calibrator, in, reached, before, after)
       /\ pc' = "CameraCalibrationStatus"
  /\ UNCHANGED <<theCalibrationRequest, theCameraCalibration, cameraCalibrationStatus,
                 houghSpace, minIndex, maxIndex, localMaxima>>

NextWiden == UpdateWidening \/ UpdateCameraCalibrationStatus

\* the step of the cycle in which update(CameraCalibration&) is called: under
\* NextWiden it is a step of UpdateWidening, which is enabled whenever this is
UpdateCalled ==
  /\ pc = "CameraCalibration"
  /\ ~calibrator.aborted
  /\ theFrameInfo.time < WidenCycles
  /\ pc' = "CameraCalibrationStatus"

\* the step in which update(CameraCalibrationStatus&) is called: under
\* NextWiden it is a step of UpdateCameraCalibrationStatus
UpdateStatusCalled ==
  /\ pc = "CameraCalibrationStatus"
  /\ ~calibrator.aborted
  /\ pc' = "CameraCalibration"

\* the framework calls the two update methods in every frame: the cycle goes
\* on as long as it can
SpecWiden ==
  /\ WidenInit
  /\ [][NextWiden]_vars
  /\ WF_pc(UpdateCalled)
  /\ WF_pc(UpdateStatusCalled)

(***************************************************************************)
(* SampleConfiguration alone: a configuration over a table in which its    *)
(* own slots are empty, and the samples recorded into it one by one        *)
(***************************************************************************)
TableSize == MaxBase + Len(SampleType) + 1

\* a sample of some other configuration
OtherSample == [type |-> "other", first |-> 0, second |-> 0]

\* the slots of a configuration, as positions of the table of the model
Slots(config) ==
  {config.sampleIndexBase + n : n \in 1..Cardinality(config.sampleTypes)}

Configurations ==
  {[camera |-> "lower", sampleTypes |-> S, sampleIndexBase |-> b] :
     S \in SUBSET SampleTypes, b \in 0..MaxBase}

Tables(config) ==
  {t \in [1..TableSize -> {NoSample, OtherSample}] : \A n \in Slots(config) : t[n] = NoSample}

ConfigurationInit ==
  /\ \E config \in Configurations :
     \E table \in Tables(config) :
       calibrator = [InitialCalibrator EXCEPT
                       !.currentSampleConfiguration = <<config>>,
                       !.numOfSamples = config.sampleIndexBase + Cardinality(config.sampleTypes),
                       !.lastSampleConfigurationIndex = 0,
                       !.samples = table]
  /\ BlackboardInit
  /\ FitLineIdle
  /\ pc = "SampleConfiguration"
  /\ trace = [op |-> "configure", recorded |-> {}]

\* record(samples, sampleType, sample) for a requested type
Record ==
  /\ pc = "SampleConfiguration"
  /\ \E sampleType \in calibrator.currentSampleConfiguration[1].sampleTypes, line \in {1, 2} :
       /\ calibrator' =
            [calibrator EXCEPT !.samples =
               record(calibrator.currentSampleConfiguration[1], calibrator.samples, sampleType,
                      [type |-> sampleType, first |-> line, second |-> 3])]
       /\ trace' = [op |-> "record", recorded |-> trace.recorded \cup {sampleType}]
  /\ UNCHANGED <<theCalibrationRequest, theCameraCalibration, theFrameInfo, cameraCalibration,
                 cameraCalibrationStatus, pc, houghSpace, minIndex, maxIndex, localMaxima>>

NextCfg == Record

SpecCfg == ConfigurationInit /\ [][NextCfg]_vars

(***************************************************************************)
(* needToRecord and samplesExist over any table: a configuration with any  *)
(* set of types and any base over a table of any size from 0 to MaxSlots   *)
(* in any state; the two functions are called, and outstanding types are   *)
(* recorded                                                                *)
(***************************************************************************)
\* most slots of a sample table
MaxSlots == 3

AnyTables ==
  UNION {[1..n -> {NoSample, OtherSample}] : n \in 0..MaxSlots}

AnyTableInit ==
  /\ \E config \in Configurations, table \in AnyTables :
       calibrator = [InitialCalibrator EXCEPT
                       !.currentSampleConfiguration = <<config>>,
                       !.numOfSamples = config.sampleIndexBase + Cardinality(config.sampleTypes),
                       !.lastSampleConfigurationIndex = 0,
                       !.samples = table]
  /\ BlackboardInit
  /\ FitLineIdle
  /\ pc = "SampleConfiguration"
  /\ trace = [op |-> "configure", exist |-> "no", need |-> [x \in SampleTypes |-> "no"]]

\* needToRecord for every type and samplesExist, called on the same table
CallBoth ==
  /\ pc = "SampleConfiguration"
  /\ trace.op # "call"
  /\ \E exist \in SamplesExistOutcomes(calibrator) :
       trace' = [op |-> "call", exist |-> exist,
                 need |-> [x \in SampleTypes |->
                             Need(calibrator.currentSampleConfiguration[1], calibrator.samples, x)]]
  /\ UNCHANGED <<calibrator, theCalibrationRequest, theCameraCalibration, theFrameInfo,
                 cameraCalibration, cameraCalibrationStatus, pc, houghSpace, minIndex, maxIndex,
                 localMaxima>>

\* ADD_SAMPLE for a type that needToRecord reports as outstanding
RecordOutstanding ==
  /\ pc = "SampleConfiguration"
  /\ \E sampleType \in Outstanding(calibrator.currentSampleConfiguration[1], calibrator.samples) :
       /\ calibrator' =
            [calibrator EXCEPT !.samples =
               record(calibrator.currentSampleConfiguration[1], calibrator.samples, sampleType,
                      [type |-> sampleType, first |-> 1, second |-> 3])]
       /\ trace' = [trace EXCEPT !.op = "record"]
  /\ UNCHANGED <<theCalibrationRequest, theCameraCalibration, theFrameInfo, cameraCalibration,
                 cameraCalibrationStatus, pc, houghSpace, minIndex, maxIndex, localMaxima>>

NextAnyTable == CallBoth \/ RecordOutstanding

SpecAnyTable == AnyTableInit /\ [][NextAnyTable]_vars

(***************************************************************************)
(* updateSampleConfiguration alone: a sequence of requests whose index     *)
(* stays or advances, each new index with a set of sample types of its own *)
(* `trace.assigned` holds, for every configuration created (numbered in    *)
(* the order of creation) and every type it asks for, the slot that        *)
(* needToRecord and record compute: <<configuration, type, slot>>          *)
(***************************************************************************)
\* the sets of sample types of the requests: none, one, two or all types
Masks == {m \in SUBSET SampleTypes : Cardinality(m) \in {0, 1, 2, Len(SampleType)}}

SlotsInit ==
  /\ calibrator = InitialCalibrator
  /\ BlackboardInit
  /\ FitLineIdle
  /\ pc = "updateSampleConfiguration"
  /\ trace = [op |-> "none", created |-> 0, assigned |-> {}]

\* the slots of the active configuration, which is the one created last
AssignedBy(self, created) ==
  {<<created, x, SampleIndex(self.currentSampleConfiguration[1], x)>> :
     x \in self.currentSampleConfiguration[1].sampleTypes}

UpdateSampleConfiguration ==
  /\ pc = "updateSampleConfiguration"
  /\ calibrator.lastSampleConfigurationIndex + 1 < MaxConfigurations
  /\ \E m \in Masks :
     \E request \in {[targetState |-> "idle", totalNumOfSamples |-> 0,
                      sampleConfigurationRequest |->
                        <<[index |-> calibrator.lastSampleConfigurationIndex + 1,
                           camera |-> "lower", sampleTypes |-> m, doRecord |-> FALSE]>>]} :
     \E after \in {updateSampleConfiguration(calibrator, request)} :
       /\ calibrator' = after
       /\ theCalibrationRequest' = request
       /\ trace' = [op |-> "created", created |-> trace.created + 1,
                    assigned |-> trace.assigned \cup AssignedBy(after, trace.created + 1)]
  /\ UNCHANGED <<theCameraCalibration, theFrameInfo, cameraCalibration, cameraCalibrationStatus,
                 pc, houghSpace, minIndex, maxIndex, localMaxima>>

\* a request that repeats the index of the last one
RepeatRequest ==
  /\ pc = "updateSampleConfiguration"
  /\ theCalibrationRequest.sampleConfigurationRequest # NoRequest
  /\ calibrator' = updateSampleConfiguration(calibrator, theCalibrationRequest)
  /\ trace' = [trace EXCEPT !.op = "repeated"]
  /\ UNCHANGED <<theCalibrationRequest, theCameraCalibration, theFrameInfo, cameraCalibration,
                 cameraCalibrationStatus, pc, houghSpace, minIndex, maxIndex, localMaxima>>

NextSlots == UpdateSampleConfiguration \/ RepeatRequest

SpecSlots == SlotsInit /\ [][NextSlots]_vars

(***************************************************************************)
(* determineLocalMaxima alone: an accumulator as calcHoughSpace leaves it, *)
(* with votes in at most two cells of the scanned sector                   *)
(***************************************************************************)
\* the angle buckets calcHoughSpace votes in:
\* for(index = minIndex; index != maxIndex; ++index), wrapping after numOfAngles - 1
InSector(angleIndex, lo, hi) ==
  IF lo <= hi THEN lo <= angleIndex /\ angleIndex < hi
  ELSE angleIndex >= lo \/ angleIndex < hi

Cells == (0..(numOfAngles - 1)) \X (0..(NumDistances - 1))

\* std::vector<std::vector<int>>(numOfAngles, std::vector<int>(2 * dMax + 1, 0))
\* after votes v1 for cell c1 and v2 for cell c2
SpaceWith(c1, v1, c2, v2) ==
  [a \in 0..(numOfAngles - 1) |->
     [d \in 0..(NumDistances - 1) |->
        IF <<a, d>> = c2 THEN v2 ELSE IF <<a, d>> = c1 THEN v1 ELSE 0]]

HoughInit ==
  /\ minIndex \in 0..(numOfAngles - 1)
  /\ maxIndex \in 0..(numOfAngles - 1)
  /\ \E c1 \in Cells, c2 \in Cells, v1 \in 0..MaxAcc, v2 \in 0..MaxAcc :
       /\ InSector(c1[1], minIndex, maxIndex) \/ v1 = 0
       /\ InSector(c2[1], minIndex, maxIndex) \/ v2 = 0
       /\ houghSpace = SpaceWith(c1, v1, c2, v2)
  /\ localMaxima = <<>>
  /\ calibrator = InitialCalibrator
  /\ BlackboardInit
  /\ pc = "calcHoughSpace"
  /\ trace = NoTrace

\* the call of determineLocalMaxima in fitLine
DetermineLocalMaxima ==
  /\ pc = "calcHoughSpace"
  /\ localMaxima' = determineLocalMaxima(houghSpace, minIndex, maxIndex)
  /\ pc' = "determineLocalMaxima"
  /\ trace' = [op |-> "determineLocalMaxima"]
  /\ UNCHANGED <<calibrator, theCalibrationRequest, theCameraCalibration, theFrameInfo,
                 cameraCalibration, cameraCalibrationStatus, houghSpace, minIndex, maxIndex>>

NextMax == DetermineLocalMaxima

SpecMax == HoughInit /\ [][NextMax]_vars

(***************************************************************************)
(* Properties of SampleConfiguration                                       *)
(***************************************************************************)
\* C1: over a table in which the configuration's slots start empty,
\* needToRecord(T) is true exactly for the requested types T that have not been
\* recorded (so false for every unrequested type, false for T after record(T),
\* and unchanged by record(T) for every other type), and samplesExist is true
\* exactly when every requested type has been recorded
C1_RoundTrip ==
  pc = "SampleConfiguration" =>
    /\ \A sampleType \in SampleTypes :
         needToRecord(calibrator.currentSampleConfiguration[1], calibrator.samples, sampleType)
           = (/\ sampleType \in calibrator.currentSampleConfiguration[1].sampleTypes
              /\ sampleType \notin trace.recorded)
    /\ samplesExist(calibrator.currentSampleConfiguration[1], calibrator.samples)
         = (calibrator.currentSampleConfiguration[1].sampleTypes \subseteq trace.recorded)

\* a configuration of two requested types at a nonzero base, both recorded
C1_AllRecorded ==
  /\ pc = "SampleConfiguration"
  /\ trace.op = "record"
  /\ calibrator.currentSampleConfiguration[1].sampleTypes = {"cornerAngle", "parallelLinesDistance"}
  /\ calibrator.currentSampleConfiguration[1].sampleIndexBase > 0
  /\ trace.recorded = {"cornerAngle", "parallelLinesDistance"}
  /\ samplesExist(calibrator.currentSampleConfiguration[1], calibrator.samples)
  /\ ~needToRecord(calibrator.currentSampleConfiguration[1], calibrator.samples, "cornerAngle")

(***************************************************************************)
(* Properties of determineLocalMaxima                                      *)
(***************************************************************************)
\* the cells of the accumulator that are not zero
NonZeroCells == {c \in Cells : houghSpace[c[1]][c[2]] # 0}

\* the cells reported as maxima
ReportedCells == {<<localMaxima[n].angleIndex, localMaxima[n].distanceIndex>> : n \in 1..Len(localMaxima)}

\* neighbours within one angle bucket (circularly) and one distance bucket
Adjacent(c1, c2) ==
  /\ c1 # c2
  /\ \E i \in -1..1 : c2[1] = ((c1[1] + i) + numOfAngles) % numOfAngles
  /\ c2[2] - c1[2] \in -1..1

\* C7: over an accumulator with exactly one nonzero cell, in an angle bucket
\* of the scanned sector, exactly one maximum is reported, namely that cell
\* with its value; and no zero-valued cell is ever reported
C7_SingleCell ==
  pc = "determineLocalMaxima" =>
    /\ \A n \in 1..Len(localMaxima) :
         /\ localMaxima[n].maxAcc # 0
         /\ localMaxima[n].maxAcc = houghSpace[localMaxima[n].angleIndex][localMaxima[n].distanceIndex]
    /\ \A c \in Cells :
         (NonZeroCells = {c} /\ InSector(c[1], minIndex, maxIndex)) =>
           localMaxima = <<[maxAcc |-> houghSpace[c[1]][c[2]], angleIndex |-> c[1], distanceIndex |-> c[2]]>>

\* one nonzero cell in a sector that wraps around the last angle bucket
C7_SingleCellReported ==
  /\ pc = "determineLocalMaxima"
  /\ minIndex > maxIndex
  /\ Cardinality(NonZeroCells) = 1
  /\ \A c \in NonZeroCells : c[1] < maxIndex
  /\ Len(localMaxima) = 1

\* C8 as stated: over an accumulator whose only nonzero cells are two
\* adjacent cells with the same value, at most one of them is reported
C8_AtMostOne ==
  pc = "determineLocalMaxima" =>
    \A c1 \in Cells, c2 \in Cells :
      (/\ NonZeroCells = {c1, c2}
       /\ Adjacent(c1, c2)
       /\ houghSpace[c1[1]][c1[2]] = houghSpace[c2[1]][c2[2]])
      => Cardinality(ReportedCells \cap {c1, c2}) <= 1

\* C8 amended: over an accumulator whose only nonzero cells are two adjacent
\* cells with the same value, both in the scanned sector, both cells are
\* reported, and nothing else
C8_BothReported ==
  pc = "determineLocalMaxima" =>
    \A c1 \in Cells, c2 \in Cells :
      (/\ NonZeroCells = {c1, c2}
       /\ Adjacent(c1, c2)
       /\ InSector(c1[1], minIndex, maxIndex)
       /\ InSector(c2[1], minIndex, maxIndex)
       /\ houghSpace[c1[1]][c1[2]] = houghSpace[c2[1]][c2[2]])
      => (ReportedCells = {c1, c2} /\ Len(localMaxima) = 2)

\* two equal cells, diagonal neighbours across the wrap-around, both reported
C8_TwoEqualReported ==
  /\ pc = "determineLocalMaxima"
  /\ minIndex > maxIndex
  /\ \E c1 \in NonZeroCells, c2 \in NonZeroCells :
       /\ NonZeroCells = {c1, c2}
       /\ c1[1] = numOfAngles - 1 /\ c2[1] = 0
       /\ c1[2] # c2[2]
       /\ Adjacent(c1, c2)
       /\ houghSpace[c1[1]][c1[2]] = houghSpace[c2[1]][c2[2]]
  /\ Len(localMaxima) = 2

(***************************************************************************)
(* Properties of the sample collector                                      *)
(***************************************************************************)
\* a range after one widening
Widened(range) == Rangef(range.min - increase, range.max + increase)

\* C2: for each range, a rejecting recording pass (a measurement for the range
\* rejected, none accepted) that is the discardsUntilIncrease-th since the last
\* accepting pass leaves the range widened by exactly `increase` on both sides
\* and the discard counter at 0; an earlier rejecting pass leaves the range
\* as it was
C2_WidenedAfterThreshold ==
  (trace.op = "update" /\ ~calibrator.aborted) =>
    \A k \in Kinds, c \in Cameras :
      Rejecting(trace.pass, k, c) =>
        IF trace.run[<<k, c>>] = discardsUntilIncrease
        THEN /\ calibrator[RangeOf(k, c)] = Widened(trace.before.ranges[RangeOf(k, c)])
             /\ calibrator[CounterOf(k)] = 0
        ELSE calibrator[RangeOf(k, c)] = trace.before.ranges[RangeOf(k, c)]

\* C3: for each kind of range, a recording pass that accepts a measurement
\* of that kind leaves the kind's discard counter at 0 and the range as it
\* was (also when the other distance of the pair is rejected), and a range of
\* the kind is widened only by the discardsUntilIncrease-th rejecting pass in
\* a row, with no accepting pass in between
C3_AcceptanceResets ==
  (trace.op = "update" /\ ~calibrator.aborted) =>
    \A k \in Kinds :
      /\ (\E c \in Cameras : Accepting(trace.pass, k, c)) =>
           /\ calibrator[CounterOf(k)] = 0
           /\ \A c \in Cameras :
                calibrator[RangeOf(k, c)] = trace.before.ranges[RangeOf(k, c)]
      /\ (\E c \in Cameras :
            calibrator[RangeOf(k, c)] # trace.before.ranges[RangeOf(k, c)]) =>
           /\ \E c \in Cameras : Rejecting(trace.pass, k, c)
           /\ trace.kindRun[k] = discardsUntilIncrease

\* the status was written in a cycle in which the collector ran, in run state
\* recordSamples, on a lower-camera configuration that asks for parallelAngle
\* alone and had not recorded it
ParallelAngleOnly ==
  /\ trace.op = "status"
  /\ ~calibrator.aborted
  /\ calibrator.state = "recordSamples"
  /\ calibrator.currentSampleConfiguration # NoConfiguration
  /\ calibrator.currentSampleConfiguration[1].camera = "lower"
  /\ calibrator.currentSampleConfiguration[1].sampleTypes = {"parallelAngle"}
  /\ trace.pass.ran
  /\ trace.pass.outstanding = {"parallelAngle"}

\* the slot of parallelAngle is empty
SlotEmpty ==
  needToRecord(calibrator.currentSampleConfiguration[1], calibrator.samples, "parallelAngle")

\* C9 as stated: with exactly two detected lines, a cycle with the record-now
\* flag off yields status visible and an empty slot, and a following cycle
\* with the flag on and the same percepts fills the slot and yields finished
C9_TwoLinesSuffice ==
  (ParallelAngleOnly /\ trace.pass.percept.lines = 2) =>
    /\ ~trace.pass.doRecord =>
         (cameraCalibrationStatus.sampleConfigurationStatus = "visible" /\ SlotEmpty)
    /\ (trace.pass.doRecord /\ trace.repeated) =>
         (~SlotEmpty /\ cameraCalibrationStatus.sampleConfigurationStatus = "finished")

\* some candidate triple of the pass was refined and measured inside the range
\* the pass began with
TripleInside ==
  \E n \in 1..Len(trace.pass.percept.triples) :
    /\ trace.pass.percept.triples[n].fit
    /\ isInside(trace.before.ranges[RangeOf("parallel", "lower")],
                trace.pass.percept.triples[n].distance)

\* C9 amended: two lines do not suffice (status notVisible, slot empty); with
\* three to eight lines that form a candidate triple, a cycle with the
\* record-now flag off yields visible and an empty slot, and a cycle with the
\* flag on in which a triple is refined and measured inside the range fills
\* the slot and yields finished
C9_ThreeLinesNeeded ==
  ParallelAngleOnly =>
    /\ trace.pass.percept.lines = 2 =>
         (cameraCalibrationStatus.sampleConfigurationStatus = "notVisible" /\ SlotEmpty)
    /\ (~trace.pass.doRecord /\ trace.pass.percept.lines \in 3..8
          /\ Len(trace.pass.percept.triples) > 0) =>
         (cameraCalibrationStatus.sampleConfigurationStatus = "visible" /\ SlotEmpty)
    /\ (trace.pass.doRecord /\ trace.pass.percept.lines \in 3..8 /\ TripleInside) =>
         (~SlotEmpty /\ cameraCalibrationStatus.sampleConfigurationStatus = "finished")

\* the slot filled from three lines in the cycle after one that saw the same
\* lines without recording
C9_FilledAfterGlance ==
  /\ ParallelAngleOnly
  /\ trace.pass.doRecord
  /\ trace.repeated
  /\ trace.pass.percept.lines = 3
  /\ ~SlotEmpty
  /\ cameraCalibrationStatus.sampleConfigurationStatus = "finished"

(***************************************************************************)
(* Properties of the optimizer                                             *)
(***************************************************************************)
\* C4: a step with a delta that is not finite, or with a sample whose error
\* is not valid, is not accepted: the optimizer is uninitialized, the step
\* counter and the lowest delta with its parameters are reset, the successive
\* convergences are not incremented, the output is the restart's parameters,
\* and the run state is still optimize
C4_DivergenceRestarts ==
  (trace.op = "update" /\ trace.step = "diverged") =>
    /\ ~calibrator.optimizer
    /\ calibrator.optimizationSteps = 0
    /\ calibrator.lowestDelta = FloatMax
    /\ calibrator.lowestDeltaParameters = ZeroParameters
    /\ calibrator.successiveConvergences <= trace.before.successiveConvergences
    /\ cameraCalibration = unpack(calibrator.optimizationParameters, theCameraCalibration)
    /\ calibrator.state = "optimize"
    /\ ~calibrator.aborted

\* a restart in the middle of a streak of qualifying steps
C4_Restarted ==
  /\ trace.op = "update"
  /\ trace.step = "diverged"
  /\ trace.before.successiveConvergences = 1
  /\ Len(calibrator.samples) = 1
  /\ ~calibrator.optimizer
  /\ calibrator.state = "optimize"

C6_BestOfStreak ==
  (trace.op = "update" /\ trace.step = "accepted") =>
    IF Len(trace.streak) >= minSuccessiveConvergences
    THEN /\ calibrator.state = "idle"
         /\ \E k \in 1..Len(trace.streak) :
              /\ cameraCalibration = unpack(trace.streak[k].parameters, theCameraCalibration)
              /\ \A j \in 1..Len(trace.streak) :
                   ~Less(trace.streak[j].error, trace.streak[k].error)
    ELSE /\ calibrator.state = "optimize"
         /\ cameraCalibration = unpack(calibrator.optimizationParameters, theCameraCalibration)

\* a streak whose first vector has the smaller mean error
C6_FirstIsBest ==
  /\ trace.op = "update"
  /\ trace.step = "accepted"
  /\ Len(trace.streak) = minSuccessiveConvergences
  /\ trace.streak[1].parameters # trace.streak[2].parameters
  /\ Less(trace.streak[1].error, trace.streak[2].error)
  /\ calibrator.state = "idle"

(***************************************************************************)
(* Properties of the cycle                                                 *)
(***************************************************************************)
\* C10 as stated: the output is written in every cycle, and in every cycle
\* that ends with run state idle it equals the input calibration
C10_IdleOutputIsInput ==
  (trace.op = "update" /\ ~calibrator.aborted) =>
    /\ cameraCalibration = calibrator.nextCameraCalibration
    /\ calibrator.state = "idle" => cameraCalibration = theCameraCalibration

\* C10 amended: the output is written in every cycle, and in every cycle that
\* ends with run state idle it equals the input calibration unless
\* convergence was accepted in that cycle, by the optimizer's step or by the
\* debug request `converge`
C10_IdleOutputUnlessConverged ==
  (trace.op = "update" /\ ~calibrator.aborted) =>
    /\ cameraCalibration = calibrator.nextCameraCalibration
    /\ (calibrator.state = "idle" /\ trace.step = "none" /\ ~trace.converge) =>
         cameraCalibration = theCameraCalibration

\* an optimization cancelled in a cycle whose input is not the calibration of
\* the cycle before
C10_IdleAfterCancel ==
  /\ trace.op = "update"
  /\ calibrator.state = "idle"
  /\ calibrator.optimizer
  /\ trace.step = "none"
  /\ ~trace.converge
  /\ theCalibrationRequest.targetState = "idle"
  /\ theCameraCalibration # CameraCalibration(0, 0, 0, 0, 0, 0)
  /\ cameraCalibration = theCameraCalibration

(***************************************************************************)
(* Properties of the run state                                             *)
(***************************************************************************)
\* C11: a cycle whose request has target state idle while the run state is
\* recordSamples or optimize ends with run state idle, every slot of the
\* sample table empty, and the optimizer uninitialized with its step counter,
\* its successive convergences and its best-tracked values cleared
C11_CancelResets ==
  (/\ trace.op = "update"
   /\ theCalibrationRequest.targetState = "idle"
   /\ trace.before.state \in {"recordSamples", "optimize"}) =>
    /\ calibrator.state = "idle"
    /\ \A n \in 1..Len(calibrator.samples) : calibrator.samples[n] = NoSample
    /\ ~calibrator.optimizer
    /\ calibrator.optimizationSteps = 0
    /\ calibrator.successiveConvergences = 0
    /\ calibrator.lowestDelta = FloatMax
    /\ calibrator.lowestDeltaParameters = ZeroParameters

\* C13: the run state at the end of a cycle is the one at its start, or was
\* reached by idle to recordSamples on a start request, recordSamples to
\* optimize, optimize to idle on accepted convergence, or any state to idle on
\* a request with target state idle; never idle to optimize
C13_Transitions ==
  (trace.op = "update" /\ calibrator.state # trace.before.state) =>
    \/ /\ trace.before.state = "idle"
       /\ calibrator.state = "recordSamples"
       /\ theCalibrationRequest.targetState = "recordSamples"
    \/ trace.before.state = "recordSamples" /\ calibrator.state = "optimize"
    \/ /\ trace.before.state = "optimize"
       /\ calibrator.state = "idle"
       /\ trace.step = "accepted"
    \/ calibrator.state = "idle" /\ theCalibrationRequest.targetState = "idle"

\* C14: at the end of every cycle inStateSince, in the object and in the
\* status written from it, is the frame time of the cycle in which the run
\* state last changed
C14_InStateSince ==
  /\ trace.op = "update" => calibrator.inStateSince = trace.changed
  /\ trace.op = "status" => cameraCalibrationStatus.inStateSince = trace.changed

(***************************************************************************)
(* Properties of the status                                                *)
(***************************************************************************)
\* an active configuration exists and every one of its slots is a slot of the
\* sample table that holds a sample
AllSlotsFilled ==
  /\ calibrator.currentSampleConfiguration # NoConfiguration
  /\ \A x \in calibrator.currentSampleConfiguration[1].sampleTypes :
       /\ IndexInTable(calibrator.samples,
                       SampleIndex(calibrator.currentSampleConfiguration[1], x))
       /\ calibrator.samples[SampleIndex(calibrator.currentSampleConfiguration[1], x) + 1]
            # NoSample

\* C12: the status written in a cycle is none iff the request carries no
\* sample-configuration request; otherwise finished iff an active
\* configuration exists and all its slots are filled; otherwise recording iff
\* the features are visible and the record-now flag is set; otherwise visible
\* iff the features are visible; otherwise notVisible
C12_StatusReported ==
  (trace.op = "status" /\ ~calibrator.aborted) =>
    cameraCalibrationStatus.sampleConfigurationStatus =
      IF theCalibrationRequest.sampleConfigurationRequest = NoRequest THEN "none"
      ELSE IF AllSlotsFilled THEN "finished"
      ELSE IF /\ calibrator.allRequiredFeaturesVisible
              /\ theCalibrationRequest.sampleConfigurationRequest[1].doRecord
           THEN "recording"
      ELSE IF calibrator.allRequiredFeaturesVisible THEN "visible"
      ELSE "notVisible"

\* C16: a cycle that begins with run state optimize ends with run state
\* optimize unless its request has target state idle or convergence is
\* accepted in it; a divergence restart and a request with target state
\* recordSamples leave it optimize (the debug request `converge` aside)
C16_StaysOptimize ==
  (/\ trace.op = "update"
   /\ trace.before.state = "optimize"
   /\ theCalibrationRequest.targetState # "idle"
   /\ ~(trace.step = "accepted" /\ Len(trace.streak) >= minSuccessiveConvergences)
   /\ ~trace.converge) =>
    calibrator.state = "optimize"

\* a divergence restart in a cycle whose request has target state recordSamples
C16_RestartedWhileRecordingRequested ==
  /\ trace.op = "update"
  /\ trace.before.state = "optimize"
  /\ theCalibrationRequest.targetState = "recordSamples"
  /\ trace.step = "diverged"
  /\ calibrator.state = "optimize"

\* C17: over runs whose configurations ask for at most as many sample types
\* as the table has slots, no slot index computed by needToRecord, record or
\* samplesExist reaches the size of the sample table: no assertion
\* `sampleIndex < samples.size()` fails and samplesExist does not read past
\* the end of the table
C17_IndexInTable ==
  (trace.op # "none" /\ trace.asked <= Len(calibrator.samples)) => ~trace.overrun

\* C18: a cycle in which optimize makes a step finds a sample in every slot
\* of the sample table, and the run state becomes optimize only when every
\* slot holds a sample
C18_NoEmptySlot ==
  trace.op = "update" =>
    /\ trace.step \in {"crashed", "diverged", "accepted"} => ~EmptySlot(calibrator.samples)
    /\ (trace.before.state # "optimize" /\ calibrator.state = "optimize") =>
         ~EmptySlot(calibrator.samples)

(***************************************************************************)
(* Properties of the slots                                                 *)
(***************************************************************************)
\* the slot of a type of a configuration by the rule: the number of types
\* asked for by the configurations created before it, plus the number of its
\* own types that precede the type in the enumeration
SlotByRule(assigned, a) ==
  Cardinality({b \in assigned : b[1] < a[1]})
    + Cardinality({b \in assigned : b[1] = a[1] /\ Ord(b[2]) < Ord(a[2])})

\* C19: every (configuration, requested type) pair has the slot the rule
\* gives, and no two different pairs have the same slot
C19_SlotsInjective ==
  trace.op \in {"created", "repeated"} =>
    /\ \A a \in trace.assigned : a[3] = SlotByRule(trace.assigned, a)
    /\ \A a, b \in trace.assigned : a[3] = b[3] => a = b
    /\ calibrator.numOfSamples = Cardinality(trace.assigned)

\* two configurations of two types each, the second with a type that comes
\* before those of the first in the enumeration
C19_TwoConfigurationsOfTwo ==
  /\ trace.op = "created"
  /\ trace.created = 2
  /\ Cardinality(trace.assigned) = 4
  /\ <<1, "groundLineDistance", 1>> \in trace.assigned
  /\ <<2, "cornerAngle", 2>> \in trace.assigned
  /\ <<2, "goalAreaDistance", 3>> \in trace.assigned

(***************************************************************************)
(* Properties of a pass of the sample collector                            *)
(***************************************************************************)
\* the corner/parallel search of the pass ran and had a candidate triple
TripleSeen(pass) ==
  /\ pass.percept.lines >= 3 /\ pass.percept.lines <= 8
  /\ pass.outstanding \cap {"cornerAngle", "parallelAngle", "parallelLinesDistance"} # {}
  /\ pass.outstanding \cap {"goalAreaDistance", "groundLineDistance"} = {}
  /\ Len(pass.percept.triples) > 0

\* the mark/line search of the pass ran and had a candidate pair
PairSeen(pass) ==
  /\ pass.percept.wasSeen
  /\ pass.percept.lines >= 2 /\ pass.percept.lines <= 8
  /\ pass.outstanding \cap {"goalAreaDistance", "groundLineDistance"} # {}
  /\ Len(pass.percept.pairs) > 0

\* the sample table when the pass of the next cycle begins: the one of this
\* cycle, or an empty one when the cycle starts the run
TableAtPass ==
  IF calibrator.state = "idle" /\ theCalibrationRequest'.targetState = "recordSamples"
  THEN [n \in 1..theCalibrationRequest'.totalNumOfSamples |-> NoSample]
  ELSE calibrator.samples

\* C20: a pass with the record-now flag off leaves the sample table and the
\* six ranges as they were, and sets the visibility when a candidate triple
\* or pair passed the geometric checks
C20_NoSampleWithoutFlag ==
  [][(pc = "CameraCalibration" /\ trace'.pass.ran /\ ~trace'.pass.doRecord) =>
       /\ calibrator'.samples = TableAtPass
       /\ \A r \in Ranges : calibrator'[r] = calibrator[r]
       /\ (~calibrator'.aborted /\ (TripleSeen(trace'.pass) \/ PairSeen(trace'.pass))) =>
            calibrator'.allRequiredFeaturesVisible]_vars

\* a pass without the flag that saw a candidate triple inside the range and
\* left the slot empty
C20_SeenNotRecorded ==
  /\ trace.op = "update"
  /\ trace.pass.ran
  /\ ~trace.pass.doRecord
  /\ TripleSeen(trace.pass)
  /\ calibrator.allRequiredFeaturesVisible
  /\ \A n \in 1..Len(calibrator.samples) : calibrator.samples[n] = NoSample

\* C15: a slot that holds a sample holds the same sample after every step
\* that does not start a run, and a slot filled by the first candidate of a
\* pass holds that sample when the pass ends, whatever candidates follow
C15_FilledSlotsKept ==
  [][/\ ~(/\ pc = "CameraCalibration"
          /\ calibrator.state = "idle"
          /\ theCalibrationRequest'.targetState = "recordSamples") =>
          \A n \in 1..Len(calibrator.samples) :
            calibrator.samples[n] # NoSample =>
              /\ n <= Len(calibrator'.samples)
              /\ calibrator'.samples[n] = calibrator.samples[n]
     /\ (pc = "CameraCalibration" /\ trace'.pass.ran) =>
          \A n \in 1..Len(trace'.pass.early) :
            trace'.pass.early[n] # NoSample => calibrator'.samples[n] = trace'.pass.early[n]]_vars

\* a recording pass with two candidate triples inside the range, after which
\* the slot holds the sample of the first
C15_SecondCandidateIgnored ==
  /\ trace.op = "update"
  /\ trace.pass.ran
  /\ trace.pass.doRecord
  /\ Len(trace.pass.percept.triples) = 2
  /\ trace.pass.found["parallel"]
  /\ \E n \in 1..Len(calibrator.samples) :
       calibrator.samples[n] = [type |-> "parallelAngle", first |-> 2, second |-> 3]

\* the run state when the next cycle reaches line 101
StateAtPass ==
  IF calibrator.state = "idle" /\ theCalibrationRequest'.targetState = "recordSamples"
  THEN "recordSamples"
  ELSE IF theCalibrationRequest'.targetState = "idle" \/ trace'.converge
       THEN "idle"
       ELSE calibrator.state

\* the next step is a cycle that calls recordSamples (lines 101..105)
PassCalled ==
  /\ pc = "CameraCalibration"
  /\ StateAtPass = "recordSamples"
  /\ calibrator'.currentSampleConfiguration # NoConfiguration
  /\ theCalibrationRequest'.sampleConfigurationRequest # NoRequest
  /\ trace'.image

\* C21: a pass in a cycle whose camera is not the camera of the active
\* configuration leaves the sample table, the six ranges, the three discard
\* counters and the visibility flag as they were
C21_OtherCameraNoOp ==
  [][(PassCalled /\ trace'.view # calibrator'.currentSampleConfiguration[1].camera) =>
       /\ calibrator'.samples = TableAtPass
       /\ \A r \in Ranges : calibrator'[r] = calibrator[r]
       /\ \A k \in Kinds : calibrator'[CounterOf(k)] = calibrator[CounterOf(k)]
       /\ calibrator'.allRequiredFeaturesVisible = calibrator.allRequiredFeaturesVisible]_vars

\* a cycle with an image of the other camera, after a pass that saw a
\* candidate and counted a discard
C21_OtherCameraAfterDiscard ==
  /\ trace.op = "update"
  /\ trace.image
  /\ calibrator.state = "recordSamples"
  /\ trace.view # calibrator.currentSampleConfiguration[1].camera
  /\ ~trace.pass.ran
  /\ calibrator.allRequiredFeaturesVisible
  /\ \E k \in Kinds : calibrator[CounterOf(k)] > 0

(***************************************************************************)
(* Properties of the sample table                                          *)
(***************************************************************************)
\* the next step changes the content of a slot of the table, or removes it
SlotChanged ==
  \E n \in 1..Len(calibrator.samples) :
    \/ n > Len(calibrator'.samples)
    \/ calibrator'.samples[n] # calibrator.samples[n]

\* C22 as stated: the content of a slot changes only in a cycle that calls
\* the sample collector (run state recordSamples after start and cancellation,
\* a configuration, a configuration request and an image)
C22_OnlyByPass ==
  [][SlotChanged => PassCalled]_vars

\* C22 amended: the table changes only in a cycle that starts a run, which
\* resizes it and empties every slot, or in a cycle that calls the sample
\* collector with the record-now flag and an image of the configuration's
\* camera; a cycle whose run state after start and cancellation is idle or
\* optimize leaves the table as it was
C22_OnlyByStartOrPass ==
  [][/\ calibrator'.samples # calibrator.samples =>
          \/ /\ pc = "CameraCalibration"
             /\ calibrator.state = "idle"
             /\ theCalibrationRequest'.targetState = "recordSamples"
          \/ /\ PassCalled
             /\ trace'.view = calibrator'.currentSampleConfiguration[1].camera
             /\ theCalibrationRequest'.sampleConfigurationRequest[1].doRecord
     /\ (pc = "CameraCalibration" /\ StateAtPass \in {"idle", "optimize"}) =>
          calibrator'.samples = calibrator.samples]_vars

\* a run was started over a table with a filled slot, in a cycle in which the
\* sample collector was not called: the slot is empty again
C22_EmptiedByStart ==
  /\ trace.op = "update"
  /\ trace.before.state = "idle"
  /\ trace.before.filled > 0
  /\ theCalibrationRequest.targetState = "recordSamples"
  /\ ~trace.pass.ran
  /\ Len(calibrator.samples) > 0
  /\ \A n \in 1..Len(calibrator.samples) : calibrator.samples[n] = NoSample

(***************************************************************************)
(* Properties of the searches                                              *)
(***************************************************************************)
\* C23: after a pass that leaves no requested type of the active
\* configuration without a sample, the visibility flag is set and the three
\* discard counters are 0, whatever the image held
C23_NothingOutstanding ==
  (/\ trace.op = "update"
   /\ trace.pass.ran
   /\ ~calibrator.aborted
   /\ Outstanding(calibrator.currentSampleConfiguration[1], calibrator.samples) = {}) =>
    /\ calibrator.allRequiredFeaturesVisible
    /\ \A k \in Kinds : calibrator[CounterOf(k)] = 0

\* a pass that began with a discard counted and ended with every requested
\* type recorded
C23_CounterCleared ==
  /\ trace.op = "update"
  /\ trace.pass.ran
  /\ ~calibrator.aborted
  /\ \E k \in Kinds : trace.before.counters[k] > 0
  /\ trace.pass.outstanding # {}
  /\ Outstanding(calibrator.currentSampleConfiguration[1], calibrator.samples) = {}
  /\ calibrator.allRequiredFeaturesVisible
  /\ \A k \in Kinds : calibrator[CounterOf(k)] = 0

\* the sample types of the two searches
CornerParallelTypes == {"cornerAngle", "parallelAngle", "parallelLinesDistance"}
MarkLineTypes == {"goalAreaDistance", "groundLineDistance"}

\* C24 as stated: in a pass that begins with a corner/parallel type
\* outstanding, the mark/line search accepts and rejects nothing, and does not
\* set the visibility
C24_MarkLineWaits ==
  (/\ trace.op = "update"
   /\ trace.pass.ran
   /\ ~calibrator.aborted
   /\ trace.pass.outstanding \cap CornerParallelTypes # {}) =>
    /\ \A k \in {"goalArea", "groundLine"} : ~trace.pass.found[k] /\ ~trace.pass.discarded[k]
    /\ trace.pass.outstanding \cap MarkLineTypes # {} => ~calibrator.allRequiredFeaturesVisible

\* C24 amended: the mark/line search accepts or rejects only in a pass that
\* begins with a distance type outstanding and has a mark, and it sets the
\* visibility for a candidate pair whether or not a corner/parallel type is
\* outstanding; it is the corner/parallel search that accepts and rejects
\* nothing while a distance type is outstanding
C24_CornerParallelWaits ==
  (/\ trace.op = "update"
   /\ trace.pass.ran
   /\ ~calibrator.aborted) =>
    /\ (\E k \in {"goalArea", "groundLine"} : trace.pass.found[k] \/ trace.pass.discarded[k]) =>
         /\ trace.pass.outstanding \cap MarkLineTypes # {}
         /\ trace.pass.percept.wasSeen
    /\ PairSeen(trace.pass) => calibrator.allRequiredFeaturesVisible
    /\ trace.pass.outstanding \cap MarkLineTypes # {} =>
         /\ ~trace.pass.found["parallel"]
         /\ ~trace.pass.discarded["parallel"]

\* a pass that began with types of both groups outstanding, over an image
\* with a candidate triple and a candidate pair: the pair was accepted
C24_PairAcceptedFirst ==
  /\ trace.op = "update"
  /\ trace.pass.ran
  /\ trace.pass.outstanding \cap CornerParallelTypes # {}
  /\ trace.pass.outstanding \cap MarkLineTypes # {}
  /\ Len(trace.pass.percept.triples) > 0
  /\ trace.pass.found["goalArea"]
  /\ trace.pass.found["groundLine"]
  /\ ~trace.pass.found["parallel"]
  /\ calibrator.allRequiredFeaturesVisible

\* the line of j and k that is longer on the field
Longer(cand) == IF cand.len2 > cand.len3 THEN cand.j ELSE cand.k

\* C25: a recording pass that accepts a candidate triple (i, j, k) whose lines
\* j and k differ in length, with the cornerAngle slot empty, leaves in that
\* slot the sample of line i and the longer of j and k
C25_LongerLine ==
  (/\ trace.op = "update"
   /\ trace.pass.ran
   /\ ~calibrator.aborted
   /\ trace.pass.doRecord
   /\ "cornerAngle" \in trace.pass.outstanding
   /\ trace.pass.found["parallel"]
   /\ Len(trace.pass.percept.triples) = 1
   /\ trace.pass.percept.triples[1].len2 # trace.pass.percept.triples[1].len3) =>
    calibrator.samples[SampleIndex(calibrator.currentSampleConfiguration[1], "cornerAngle") + 1]
      = [type |-> "cornerAngle",
         first |-> trace.pass.percept.triples[1].i,
         second |-> Longer(trace.pass.percept.triples[1])]

\* the line of a candidate pair taken as the goal area line, and as the ground
\* line: the farther one is the ground line
GoalAreaLineOf(cand) == IF cand.firstFarther THEN cand.j ELSE cand.i
GroundLineOf(cand) == IF cand.firstFarther THEN cand.i ELSE cand.j

\* the sample the mark/line search records for a type from a candidate pair
PairSample(cand, sampleType) ==
  [type |-> sampleType,
   first |-> IF sampleType \in MarkLineTypes THEN "penaltyMark" ELSE GoalAreaLineOf(cand),
   second |-> IF sampleType = "goalAreaDistance" THEN GoalAreaLineOf(cand) ELSE GroundLineOf(cand)]

\* the slot of a requested type in the table, counted from 1
SlotOf(config, sampleType) == SampleIndex(config, sampleType) + 1

\* C26: in a recording pass whose mark/line search has one candidate pair
\* with both lines refined, each distance is accepted or discarded for its own
\* range by its own test; when both are accepted, every outstanding type of
\* goalAreaDistance, groundLineDistance, parallelAngle, parallelLinesDistance
\* gets its sample and every other slot stays as it was; when one of them is
\* discarded the table stays as it was
C26_BothAccepted ==
  [][(/\ PassCalled
      /\ trace'.pass.ran /\ trace'.pass.doRecord
      /\ ~calibrator'.aborted
      /\ PairSeen(trace'.pass)
      /\ Len(trace'.pass.percept.pairs) = 1
      /\ trace'.pass.percept.pairs[1].fit) =>
       \E cand \in {trace'.pass.percept.pairs[1]} :
       \E config \in {calibrator'.currentSampleConfiguration[1]} :
       \E goalAreaLineDistanceValid \in
            {isInside(calibrator[RangeOf("goalArea", config.camera)], cand.goalAreaLineDistance)} :
       \E groundLineDistanceValid \in
            {isInside(calibrator[RangeOf("groundLine", config.camera)], cand.groundLineDistance)} :
         /\ trace'.pass.found["goalArea"] = goalAreaLineDistanceValid
         /\ trace'.pass.discarded["goalArea"] = ~goalAreaLineDistanceValid
         /\ trace'.pass.found["groundLine"] = groundLineDistanceValid
         /\ trace'.pass.discarded["groundLine"] = ~groundLineDistanceValid
         /\ IF goalAreaLineDistanceValid /\ groundLineDistanceValid
            THEN \A n \in 1..Len(TableAtPass) :
                   IF \E x \in trace'.pass.outstanding \ {"cornerAngle"} : SlotOf(config, x) = n
                   THEN \E x \in trace'.pass.outstanding \ {"cornerAngle"} :
                          /\ SlotOf(config, x) = n
                          /\ calibrator'.samples[n] = PairSample(cand, x)
                   ELSE calibrator'.samples[n] = TableAtPass[n]
            ELSE calibrator'.samples = TableAtPass]_vars

\* a recording pass that accepted the goal area distance of the pair and
\* discarded its ground line distance: the goalAreaDistance slot is empty
C26_OneAccepted ==
  /\ trace.op = "update"
  /\ trace.pass.ran /\ trace.pass.doRecord
  /\ PairSeen(trace.pass)
  /\ Len(trace.pass.percept.pairs) = 1
  /\ trace.pass.percept.pairs[1].fit
  /\ trace.pass.found["goalArea"]
  /\ trace.pass.discarded["groundLine"]
  /\ "goalAreaDistance" \in trace.pass.outstanding
  /\ calibrator.samples[SlotOf(calibrator.currentSampleConfiguration[1], "goalAreaDistance")] = NoSample

(***************************************************************************)
(* Properties of the discard counters                                      *)
(***************************************************************************)
\* C27: a range is widened in a cycle only when every rejecting pass counted
\* in its discard counter since the counter was last 0 was a pass for the
\* range's own camera
C27_OwnCounter ==
  (trace.op = "update" /\ ~calibrator.aborted) =>
    \A k \in Kinds, c \in Cameras :
      calibrator[RangeOf(k, c)] # trace.before.ranges[RangeOf(k, c)] =>
        trace.contributors[k] = {c}

(***************************************************************************)
(* Properties of candidates that fitLine does not refine                   *)
(***************************************************************************)
\* fitLine succeeded on every line of the candidate
Fit(cand) == cand.fit

\* C28: in a recording pass, the candidates with a line that fitLine does not
\* refine add nothing: a range is marked accepted (discarded) exactly when a
\* refined candidate measures inside (outside) it, also when the refined
\* candidate comes after one that is not; when no candidate is refined the
\* table, the ranges and the counters stay as they were
C28_UnfitSkipped ==
  [][(/\ PassCalled
      /\ trace'.pass.ran /\ trace'.pass.doRecord
      /\ ~calibrator'.aborted) =>
       \E config \in {calibrator'.currentSampleConfiguration[1]} :
       /\ TripleSeen(trace'.pass) =>
            \E fits \in {SelectSeq(trace'.pass.percept.triples, Fit)} :
            \E range \in {calibrator[RangeOf("parallel", config.camera)]} :
              /\ trace'.pass.found["parallel"] =
                   \E n \in 1..Len(fits) : isInside(range, fits[n].distance)
              /\ trace'.pass.discarded["parallel"] =
                   \E n \in 1..Len(fits) : ~isInside(range, fits[n].distance)
              /\ \A n \in 1..Len(fits) :
                   (/\ isInside(range, fits[n].distance)
                    /\ "parallelAngle" \in trace'.pass.outstanding
                    /\ \A m \in 1..(n - 1) : ~isInside(range, fits[m].distance)) =>
                     calibrator'.samples[SlotOf(config, "parallelAngle")] =
                       [type |-> "parallelAngle", first |-> fits[n].j, second |-> fits[n].k]
              /\ fits = <<>> =>
                   /\ calibrator'.samples = TableAtPass
                   /\ calibrator'[RangeOf("parallel", config.camera)] = range
                   /\ calibrator'.numOfDiscardedParallelLines = calibrator.numOfDiscardedParallelLines
       /\ PairSeen(trace'.pass) =>
            \E fits \in {SelectSeq(trace'.pass.percept.pairs, Fit)} :
            \E goalAreaDisRange \in {calibrator[RangeOf("goalArea", config.camera)]} :
            \E groundLineDisRange \in {calibrator[RangeOf("groundLine", config.camera)]} :
              /\ trace'.pass.found["goalArea"] =
                   \E n \in 1..Len(fits) : isInside(goalAreaDisRange, fits[n].goalAreaLineDistance)
              /\ trace'.pass.discarded["goalArea"] =
                   \E n \in 1..Len(fits) : ~isInside(goalAreaDisRange, fits[n].goalAreaLineDistance)
              /\ trace'.pass.found["groundLine"] =
                   \E n \in 1..Len(fits) : isInside(groundLineDisRange, fits[n].groundLineDistance)
              /\ trace'.pass.discarded["groundLine"] =
                   \E n \in 1..Len(fits) : ~isInside(groundLineDisRange, fits[n].groundLineDistance)
              /\ fits = <<>> =>
                   /\ calibrator'.samples = TableAtPass
                   /\ calibrator'[RangeOf("goalArea", config.camera)] = goalAreaDisRange
                   /\ calibrator'[RangeOf("groundLine", config.camera)] = groundLineDisRange
                   /\ calibrator'.numOfDiscardedGoalAreaLines = calibrator.numOfDiscardedGoalAreaLines
                   /\ calibrator'.numOfDiscardedGroundLines = calibrator.numOfDiscardedGroundLines]_vars

\* a recording pass over two candidate triples, the first with a line that is
\* not refined: the second was accepted and its sample recorded
C28_SecondAfterUnfit ==
  /\ trace.op = "update"
  /\ trace.pass.ran /\ trace.pass.doRecord
  /\ TripleSeen(trace.pass)
  /\ Len(trace.pass.percept.triples) = 2
  /\ ~trace.pass.percept.triples[1].fit
  /\ trace.pass.found["parallel"]
  /\ ~trace.pass.discarded["parallel"]
  /\ calibrator.samples[SlotOf(calibrator.currentSampleConfiguration[1], "parallelAngle")] =
       [type |-> "parallelAngle", first |-> 2, second |-> 4]

(***************************************************************************)
(* Properties of the optimizer's convergence count                         *)
(***************************************************************************)
\* C29: after a step that optimize accepts, successiveConvergences is the
\* number of steps in a row, ending with this one, whose |delta| was below
\* the termination threshold of the step: one more than before after such a
\* step, 0 after any other
C29_CountsQualifyingSteps ==
  (trace.op = "update" /\ trace.step = "accepted") =>
    /\ calibrator.successiveConvergences = Len(trace.streak)
    /\ calibrator.successiveConvergences =
         IF trace.streak # <<>> THEN trace.before.successiveConvergences + 1 ELSE 0

\* a step below the threshold of the second plateau, after a step below it
\* that followed 500 steps above the threshold of the first
C29_SecondInARow ==
  /\ trace.op = "update"
  /\ trace.step = "accepted"
  /\ trace.before.optimizationSteps > 500
  /\ trace.delta = -12
  /\ trace.before.successiveConvergences = 1
  /\ Len(trace.streak) = 2
  /\ calibrator.successiveConvergences = 2

(***************************************************************************)
(* Properties of the termination threshold                                 *)
(***************************************************************************)
\* the steps taken since the optimizer was reset, the accepted step of this
\* cycle included
StepsTaken == trace.before.optimizationSteps + 1

\* the multiplier of the threshold after a number of steps
Plateau(steps) == Max(1, 50 * (steps \div 500))

\* C30 as stated: a step that optimize accepts counts as a convergence exactly
\* when |delta| is below terminationCriterion times a multiplier that is 1 and
\* grows by 1 with every 500 steps taken since the reset
C30_PlusOnePerPlateau ==
  (trace.op = "update" /\ trace.step = "accepted") =>
    (calibrator.successiveConvergences > 0) =
      (Abs(trace.delta) < terminationCriterion * (1 + (StepsTaken \div 500)))

\* C30 amended: a step that optimize accepts counts as a convergence exactly
\* when |delta| is below terminationCriterion times a multiplier that is 1
\* for the first 499 steps since the reset and 50 times the number of
\* completed runs of 500 steps from then on; the multiplier does not decrease
\* from one step to the next
C30_FiftyPerPlateau ==
  (trace.op = "update" /\ trace.step = "accepted") =>
    /\ (calibrator.successiveConvergences > 0) =
         (Abs(trace.delta) < terminationCriterion * Plateau(StepsTaken))
    /\ Plateau(StepsTaken) >= Plateau(trace.before.optimizationSteps)
    /\ StepsTaken < 500 => Plateau(StepsTaken) = 1

\* the 1000th step since the reset, with a delta of 300, counted as a
\* convergence
C30_ThirdPlateau ==
  /\ trace.op = "update"
  /\ trace.step = "accepted"
  /\ StepsTaken = 1000
  /\ trace.delta = 300
  /\ calibrator.successiveConvergences = 1

(***************************************************************************)
(* Properties of the cycle that creates the optimizer                      *)
(***************************************************************************)
\* C31: a cycle that calls optimize without an optimizer makes no step: the
\* parameters become the packed input calibration, successiveConvergences
\* becomes 0, optimizationSteps is not incremented, and the calibration
\* written equals the calibration read.
C31_OutputIsInput ==
  [][(pc = "CameraCalibration" /\ trace'.step = "initialized")
       => /\ calibrator'.optimizer
          /\ calibrator'.optimizationParameters = pack(theCameraCalibration')
          /\ calibrator'.successiveConvergences = 0
          /\ calibrator'.optimizationSteps <= trace'.before.optimizationSteps
          /\ cameraCalibration' = theCameraCalibration']_vars

\* C31, amended: a cycle that calls optimize without an optimizer makes no step:
\* the parameters become the packed input calibration, successiveConvergences
\* becomes 0 and optimizationSteps is 0 and not incremented. The calibration
\* written equals the calibration read unless the debug request converge was
\* honoured earlier in the cycle, which writes the parameters of the lowest
\* delta and removes the optimizer before optimize is called. Such a cycle is
\* the first optimize cycle after a run is started (no optimizer exists while
\* samples are recorded) and the first optimize cycle after a step that was
\* not accepted.
C31_OutputIsInputUnlessConverged ==
  [][/\ (calibrator.state = "recordSamples" /\ ~calibrator.aborted) => ~calibrator.optimizer
     /\ (pc = "CameraCalibration" /\ trace.step = "diverged" /\ trace'.step # "none")
          => trace'.step = "initialized"
     /\ (pc = "CameraCalibration" /\ trace'.step = "initialized")
          => /\ calibrator'.optimizer
             /\ calibrator'.optimizationParameters = pack(theCameraCalibration')
             /\ calibrator'.successiveConvergences = 0
             /\ calibrator'.optimizationSteps = 0
             /\ calibrator'.optimizationSteps <= trace'.before.optimizationSteps
             /\ cameraCalibration' =
                  IF trace'.converge
                  THEN unpack(calibrator.lowestDeltaParameters, theCameraCalibration')
                  ELSE theCameraCalibration']_vars

\* the optimizer is created again in the cycle in which the debug request
\* converge removed it, and the calibration written is not the one read
C31_InitializedAfterConverge ==
  /\ trace.op = "update"
  /\ trace.step = "initialized"
  /\ trace.converge
  /\ trace.before.optimizationSteps > 0
  /\ calibrator.optimizationSteps = 0
  /\ calibrator.optimizationParameters = pack(theCameraCalibration)
  /\ cameraCalibration # theCameraCalibration

(***************************************************************************)
(* Properties of the widening of the ranges                                *)
(***************************************************************************)
\* the kinds of range a scene's candidate is measured against
KindsOf(percept) ==
  IF Len(percept.triples) > 0 THEN {"parallel"} ELSE {"goalArea", "groundLine"}

\* the measured distance of a scene's candidate for a kind of range
Measured(percept, kind) ==
  CASE kind = "parallel" -> percept.triples[1].distance
    [] kind = "goalArea" -> percept.pairs[1].goalAreaLineDistance
    [] kind = "groundLine" -> percept.pairs[1].groundLineDistance

\* the pass of the last cycle accepted the scene's candidate: every range it
\* is measured against contains its distance, and no requested type of the
\* configuration is outstanding
Recorded ==
  /\ ~calibrator.aborted
  /\ trace.pass.ran
  /\ trace.pass.outstanding # {}
  /\ \A k \in KindsOf(trace.pass.percept) :
       /\ trace.pass.found[k]
       /\ isInside(calibrator[RangeOf(k, trace.pass.camera)], Measured(trace.pass.percept, k))
  /\ Outstanding(calibrator.currentSampleConfiguration[1], calibrator.samples) = {}
  /\ samplesExist(calibrator.currentSampleConfiguration[1], calibrator.samples)

C33_SamplesExistIffNothingNeeded ==
  (trace.op = "call"
     /\ (calibrator.currentSampleConfiguration[1].sampleTypes = {}
          \/ calibrator.currentSampleConfiguration[1].sampleIndexBase < Len(calibrator.samples)))
    => /\ (trace.exist = "yes") <=> (\A x \in SampleTypes : trace.need[x] = "no")
       /\ calibrator.currentSampleConfiguration[1].sampleTypes = {} => trace.exist = "yes"

(***************************************************************************)
(* Properties of the calibration the optimizer writes                      *)
(***************************************************************************)
\* the parameters written by the cycle: those of the restart, of the accepted
\* step, of the best step of the streak, or of the lowest delta
WrittenByOptimizer == trace.op = "update" /\ (trace.step \in {"accepted", "diverged"} \/ trace.converge)

\* C34: each of the six angles of a calibration written by the optimizer (by
\* an accepted step, a step that is not accepted, or the restart after it)
\* has a magnitude below 360 degrees, whatever the parameter vector is, and is
\* the remainder of the parameter it is written from
C34_BelowFullTurn ==
  (WrittenByOptimizer /\ ~calibrator.aborted) =>
    /\ \A n \in 1..NumOfParameters : Abs(pack(cameraCalibration)[n]) < 360 * OneDegree
    /\ (trace.step = "accepted" /\ calibrator.state = "optimize") =>
         \A n \in 1..NumOfParameters :
           \E turns \in -2..2 :
             pack(cameraCalibration)[n] + turns * 360 * OneDegree
               = calibrator.optimizationParameters[n]

\* an accepted step that leaves parameters of more than a full turn on either
\* side and of exactly a full turn
C34_WrittenFromBeyondFullTurn ==
  /\ WrittenByOptimizer
  /\ trace.step = "accepted"
  /\ calibrator.state = "optimize"
  /\ calibrator.optimizationParameters[1] > 360 * OneDegree
  /\ calibrator.optimizationParameters[2] = -360 * OneDegree
  /\ calibrator.optimizationParameters[6] < -360 * OneDegree
  /\ pack(cameraCalibration) = <<OneDegree, 0, 0, -2 * OneDegree, 0, -5 * OneDegree>>
====
